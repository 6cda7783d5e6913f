-------------------------- MODULE SymbolRunsProofs --------------------------
(***************************************************************************)
(* Files are never emptied and a session at work has a generation: from    *)
(* these two facts follow the types, and from what a session remembers of  *)
(* its file the truth of the tables it writes.                             *)
(***************************************************************************)
EXTENDS SymbolRuns, TLAPS

\* A session between the runner and the end of a symbol has a generation, one
\* about to publish has the checksum of a file, and that file is there.
Working == \A s \in Sessions : ses[s].pc \in {"save", "build", "publish", "register", "child", "reload"} =>
             ses[s].gen # None
Filed == \A s \in Sessions :
           /\ ses[s].pc = "publish" => ses[s].sha # None
           /\ ses[s].pc \in {"publish", "register"} => file[Sym(s)] # None

Typed == TypeOK /\ Working /\ Filed

LEMMA NoneIsApart == None \notin Payloads /\ None \notin Generations
<1>1. Runs \subseteq Nat /\ 0..MaxTime \subseteq Nat
  BY SymbolRunsOK DEF Runs
<1> QED BY <1>1, SymbolRunsOK DEF Payloads, Generations, Views

LEMMA Bounds == /\ 0 \in Runs /\ 0 \in 0..MaxTime /\ 0 \in 0..Day(MaxTime)
                /\ \A t \in 0..MaxTime : Day(t) \in 0..Day(MaxTime)
  BY SymbolRunsOK DEF Runs, Day

LEMMA SelectedIsSeq ==
  ASSUME NEW s \in Sessions
  PROVE  /\ Selected[s] \in Seq(Symbols) /\ Len(Selected[s]) \in Nat /\ Len(Selected[s]) >= 1
         /\ DOMAIN Selected[s] = 1..Len(Selected[s]) /\ 1 \in DOMAIN Selected[s]
         /\ Mine(s) \subseteq Symbols
<1>1. Selected[s] \in Seq(Symbols) /\ Selected[s] # <<>>
  BY SymbolRunsOK
<1>2. Len(Selected[s]) \in Nat /\ DOMAIN Selected[s] = 1..Len(Selected[s]) /\ Len(Selected[s]) # 0
  BY <1>1
<1>3. Mine(s) \subseteq Symbols
  BY <1>1, <1>2 DEF Mine, Range
<1> QED BY <1>1, <1>2, <1>3

LEMMA ItsMemory ==
  ASSUME TypeOK, NEW s \in Sessions
  PROVE  ses[s] \in Memory /\ Sym(s) \in Symbols /\ ses[s].idx \in DOMAIN Selected[s]
<1>1. ses[s] \in Memory /\ ses[s].idx \in DOMAIN Selected[s]
  BY DEF TypeOK
<1> QED BY <1>1, SelectedIsSeq DEF Sym

LEMMA FreshIsMemory == Fresh \in Memory /\ Fresh.idx = 1 /\ Fresh.pc = "idle"
  BY Bounds DEF Fresh, Memory, Views, Places

LEMMA GoEffect ==
  ASSUME TypeOK, NEW s \in Sessions, NEW from \in Places, NEW to \in Places, NEW m \in Memory,
         Go(s, from, to, m)
  PROVE  /\ ses[s].pc = from /\ ses'[s].pc = to /\ ses'[s] \in Memory /\ ses' \in [Sessions -> Memory]
         /\ ses'[s].idx = m.idx /\ ses'[s].gen = m.gen /\ ses'[s].sha = m.sha
         /\ \A t \in Sessions : t # s => ses'[t] = ses[t]
  BY DEF Go, Memory, TypeOK

LEMMA EndsAreMemory ==
  ASSUME NEW m \in Memory
  PROVE  /\ EndOfBody(m) \in Memory /\ EndOfBody(m).idx = m.idx
         /\ EndOfRun(m) \in Memory /\ EndOfRun(m).idx = 1
<1>1. EndOfBody(m) \in Memory
  BY Bounds DEF EndOfBody, Memory
<1>2. EndOfRun(m) \in Memory
  BY Bounds DEF EndOfRun, Memory
<1> QED BY <1>1, <1>2 DEF EndOfRun, EndOfBody, Memory

\* What a session keeps when it leaves a place: an index in
\* range, and what is needed for the place it goes to.
Fits(s, to, m) ==
  /\ m.idx \in DOMAIN Selected[s]
  /\ to \in {"save", "build", "publish", "register", "child", "reload"} => m.gen # None
  /\ to = "publish" => m.sha # None
  /\ to \in {"publish", "register"} => file[Selected[s][m.idx]] # None

FilesStay == \A x \in Symbols : file[x] # None => file'[x] # None

\* The step of one session keeps every session good for its place.
LEMMA GoKeeps ==
  ASSUME Typed, NEW s \in Sessions, NEW from \in Places, NEW to \in Places, NEW m \in Memory,
         Go(s, from, to, m), Fits(s, to, m), FilesStay
  PROVE  /\ ses' \in [Sessions -> Memory] /\ \A t \in Sessions : ses'[t].idx \in DOMAIN Selected[t]
         /\ Working' /\ Filed'
<1>2. /\ ses'[s].pc = to /\ ses' \in [Sessions -> Memory]
      /\ ses'[s].idx = m.idx /\ ses'[s].gen = m.gen /\ ses'[s].sha = m.sha
      /\ \A t \in Sessions : t # s => ses'[t] = ses[t]
  BY GoEffect DEF Typed
<1>3. \A t \in Sessions : ses'[t].idx \in DOMAIN Selected[t]
  <2>1. SUFFICES ASSUME NEW t \in Sessions PROVE ses'[t].idx \in DOMAIN Selected[t]
    OBVIOUS
  <2>2. CASE t = s
    BY <1>2, <2>2 DEF Fits
  <2>3. CASE t # s
    BY <1>2, <2>3 DEF Typed, TypeOK
  <2> QED BY <2>2, <2>3
<1>4. Working'
  <2>1. SUFFICES ASSUME NEW t \in Sessions,
                        ses'[t].pc \in {"save", "build", "publish", "register", "child", "reload"}
                 PROVE  ses'[t].gen # None
    BY DEF Working
  <2>2. CASE t = s
    BY <1>2, <2>1, <2>2 DEF Fits
  <2>3. CASE t # s
    BY <1>2, <2>1, <2>3 DEF Typed, Working
  <2> QED BY <2>2, <2>3
<1>5. Filed'
  <2>1. SUFFICES ASSUME NEW t \in Sessions
                 PROVE  /\ ses'[t].pc = "publish" => ses'[t].sha # None
                        /\ ses'[t].pc \in {"publish", "register"} => file'[Selected[t][ses'[t].idx]] # None
    BY DEF Filed, Sym
  <2>2. CASE t = s
    <3>1. Selected[s][m.idx] \in Symbols
      BY SelectedIsSeq DEF Fits
    <3> QED BY <1>2, <2>2, <3>1 DEF Fits, FilesStay
  <2>3. CASE t # s
    <3>1. Sym(t) \in Symbols
      BY ItsMemory DEF Typed
    <3> QED BY <1>2, <2>3, <3>1 DEF Typed, Filed, Sym, FilesStay
  <2> QED BY <2>2, <2>3
<1> QED BY <1>2, <1>3, <1>4, <1>5

LEMMA NextIndex ==
  \A m \in Memory : [m EXCEPT !.idx = @ + 1] \in Memory /\ [m EXCEPT !.idx = @ + 1].idx = m.idx + 1
<1> SUFFICES ASSUME NEW m \in Memory
    PROVE [m EXCEPT !.idx = @ + 1] \in Memory /\ [m EXCEPT !.idx = @ + 1].idx = m.idx + 1
  OBVIOUS
<1>1. m.idx + 1 \in Nat
  BY DEF Memory
<1> QED BY <1>1 DEF Memory

LEMMA NextSymbolKeeps ==
  ASSUME Typed, NEW s \in Sessions, NEW from \in Places, NEW m \in Memory,
         m.idx \in DOMAIN Selected[s], NextSymbol(s, from, m), FilesStay
  PROVE  /\ ses' \in [Sessions -> Memory] /\ \A t \in Sessions : ses'[t].idx \in DOMAIN Selected[t]
         /\ Working' /\ Filed'
<1>1. EndOfBody(m) \in Memory /\ EndOfBody(m).idx = m.idx
  BY EndsAreMemory
<1>2. /\ DOMAIN Selected[s] = 1..Len(Selected[s]) /\ Len(Selected[s]) \in Nat
      /\ {"finish", "activate"} \subseteq Places
  BY SelectedIsSeq DEF Places
<1>3. CASE m.idx = Len(Selected[s])
  <2>1. Go(s, from, "finish", EndOfBody(m))
    BY <1>3 DEF NextSymbol
  <2>2. Fits(s, "finish", EndOfBody(m))
    BY <1>1 DEF Fits
  <2> QED BY <1>1, <1>2, <2>1, <2>2, GoKeeps
<1>4. CASE m.idx # Len(Selected[s])
  <2> DEFINE b == EndOfBody(m)
             n == [b EXCEPT !.idx = @ + 1]
  <2>1. m.idx \in Nat /\ m.idx + 1 \in 1..Len(Selected[s])
    BY <1>2, <1>4
  <2>2. n \in Memory /\ n.idx = m.idx + 1
    <3>1. b \in Memory /\ b.idx = m.idx
      BY <1>1
    <3> HIDE DEF b
    <3> QED BY <3>1, NextIndex, Zenon
  <2>3. Go(s, from, "activate", n)
    BY <1>4 DEF NextSymbol
  <2>4. Fits(s, "activate", n)
    BY <1>2, <2>1, <2>2 DEF Fits
  <2> HIDE DEF n
  <2> QED BY <1>2, <2>2, <2>3, <2>4, GoKeeps
<1> QED BY <1>3, <1>4

LEMMA FileTypes ==
  ASSUME TypeOK, NEW x \in Symbols, file[x] # None
  PROVE  /\ file[x] \in Payloads /\ file[x].gen \in Generations /\ file[x].run \in Runs
         /\ file[x].gen # None /\ file[x].child \in Runs /\ file[x].view \in Views
         /\ file[x].whole \in BOOLEAN
<1>1. file[x] \in Payloads
  BY DEF TypeOK
<1> QED BY <1>1, NoneIsApart DEF Payloads

LEMMA ActivatedIsMemory ==
  ASSUME TypeOK, NEW m \in Memory, NEW x \in Symbols
  PROVE  /\ Activated(m, x) \in Memory /\ Activated(m, x).idx = m.idx
         /\ Activated(m, x).run = m.run /\ Activated(m, x).complete = m.complete
<1>1. CASE file[x] = None
  BY <1>1 DEF Activated
<1>2. CASE file[x] # None
  <2> DEFINE g == file[x].gen
             c == file[x].child
             w == file[x].whole
             v == IF file[x].view = None THEN m.view ELSE file[x].view
             n == [m EXCEPT !.gen = g, !.symbol = x, !.child = c, !.mark = FALSE, !.whole = w, !.view = v]
  <2>1. /\ g \in Generations /\ c \in Runs /\ w \in BOOLEAN /\ file[x].view \in Views
    BY <1>2, FileTypes
  <2>2. v \in Views
    BY <2>1 DEF Memory
  <2>3. Activated(m, x) = n
    BY <1>2 DEF Activated, Memory
  <2> HIDE DEF g, c, w, v
  <2>4. n \in Memory
    BY <2>1, <2>2 DEF Memory
  <2>5. n.idx = m.idx /\ n.run = m.run /\ n.complete = m.complete
    BY DEF Memory
  <2> HIDE DEF n
  <2> QED BY <2>3, <2>4, <2>5
<1> QED BY <1>1, <1>2

\* What no session touches keeps its type.
TablesTyped ==
  /\ evidence \subseteq Runs \X Symbols /\ audit \subseteq Runs
  /\ children \subseteq Child /\ registry \in Seq(Child) /\ pubs \subseteq Publication
  /\ daily \in [0..Day(MaxTime) -> [run : Runs, rows : SUBSET Candidate] \cup {None}]

LEMMA Untouched ==
  ASSUME Typed
  PROVE  /\ UNCHANGED tables => TablesTyped'
         /\ UNCHANGED now => (now \in 0..MaxTime)'
         /\ UNCHANGED nruns => (nruns \in Runs)'
         /\ UNCHANGED file => FilesStay /\ (file \in [Symbols -> Payloads \cup {None}])'
  BY DEF Typed, TypeOK, TablesTyped, tables, FilesStay

LEMMA TypedParts ==
  ASSUME (now \in 0..MaxTime)', (nruns \in Runs)', (file \in [Symbols -> Payloads \cup {None}])',
         TablesTyped', ses' \in [Sessions -> Memory],
         \A t \in Sessions : ses'[t].idx \in DOMAIN Selected[t], Working', Filed'
  PROVE  Typed'
  BY DEF Typed, TypeOK, TablesTyped

\* The steps that write no file and no table: what is left to show is the memory.
LEMMA MemoryStep ==
  ASSUME Typed, NEW s \in Sessions, NEW from \in Places, NEW to \in Places, NEW m \in Memory,
         Go(s, from, to, m), Fits(s, to, m), UNCHANGED <<now, nruns, file, tables>>
  PROVE  Typed'
<1>1. /\ FilesStay /\ TablesTyped' /\ (now \in 0..MaxTime)' /\ (nruns \in Runs)'
      /\ (file \in [Symbols -> Payloads \cup {None}])'
  BY Untouched
<1>2. /\ ses' \in [Sessions -> Memory] /\ \A t \in Sessions : ses'[t].idx \in DOMAIN Selected[t]
      /\ Working' /\ Filed'
  BY <1>1, GoKeeps
<1> QED BY <1>1, <1>2, TypedParts
LEMMA PlacesAre ==
  {"idle", "activate", "calculate", "save", "build", "publish", "register", "child", "reload",
   "finish", "show", "look", "second", "insert", "complete", "strict", "partial", "end"}
    \subseteq Places
  BY DEF Places

LEMMA BeginTypes == ASSUME Typed, NEW s \in Sessions, Begin(s) PROVE Typed'
<1> DEFINE p == IF ses[s].claimed THEN ses[s].manifest ELSE 0
           m == [ses[s] EXCEPT !.run = nruns + 1, !.ended = FALSE, !.previous = p]
<1>1. ses[s] \in Memory /\ ses[s].idx \in DOMAIN Selected[s] /\ p \in Runs
  BY ItsMemory, Bounds DEF Typed, Memory
<1> HIDE DEF p
<1>2. nruns' \in Runs /\ nruns' = nruns + 1
  BY SymbolRunsOK DEF Begin, Typed, TypeOK, Runs
<1>3. m \in Memory /\ m.idx = ses[s].idx
  BY <1>1, <1>2 DEF Memory
<1>4. Fits(s, "activate", m)
  BY <1>1, <1>3 DEF Fits
<1>5. Go(s, "idle", "activate", m) /\ UNCHANGED tables /\ UNCHANGED now /\ UNCHANGED file
  BY DEF Begin, p
<1> HIDE DEF m
<1>6. FilesStay /\ TablesTyped' /\ (now \in 0..MaxTime)' /\ (file \in [Symbols -> Payloads \cup {None}])'
  BY <1>5, Untouched
<1>7. /\ ses' \in [Sessions -> Memory] /\ \A t \in Sessions : ses'[t].idx \in DOMAIN Selected[t]
      /\ Working' /\ Filed'
  BY <1>3, <1>4, <1>5, <1>6, PlacesAre, GoKeeps
<1> QED BY <1>2, <1>6, <1>7, TypedParts

LEMMA ActivateTypes == ASSUME Typed, NEW s \in Sessions, Activate(s) PROVE Typed'
<1> DEFINE a == Activated(ses[s], Sym(s))
           n == [a EXCEPT !.gen = None, !.symbol = None, !.child = a.run, !.mark = FALSE,
                          !.whole = FALSE]
           m == IF Saved(ses[s], Sym(s)) THEN a ELSE n
<1>1. ses[s] \in Memory /\ ses[s].idx \in DOMAIN Selected[s] /\ Sym(s) \in Symbols
  BY ItsMemory DEF Typed
<1>2. a \in Memory /\ a.idx = ses[s].idx
  BY <1>1, ActivatedIsMemory DEF Typed
<1>3. n \in Memory /\ n.idx = a.idx
  BY <1>2 DEF Memory
<1>4. m \in Memory /\ m.idx = ses[s].idx
  BY <1>2, <1>3
<1>5. Go(s, "activate", "calculate", m) /\ UNCHANGED <<now, nruns, file, tables>>
  BY DEF Activate
<1>6. Fits(s, "calculate", m)
  BY <1>1, <1>4 DEF Fits
<1> HIDE DEF m
<1> QED BY <1>4, <1>5, <1>6, PlacesAre, MemoryStep

LEMMA CalculateTypes == ASSUME Typed, NEW s \in Sessions, Calculate(s) PROVE Typed'
<1>1. /\ ses[s] \in Memory /\ ses[s].idx \in DOMAIN Selected[s] /\ Sym(s) \in Symbols
      /\ ses[s].run \in Runs /\ now \in 0..MaxTime
  BY ItsMemory DEF Typed, TypeOK, Memory
<1>2. UNCHANGED now /\ UNCHANGED nruns /\ UNCHANGED file
  BY DEF Calculate
<1>3. /\ FilesStay /\ (now \in 0..MaxTime)' /\ (nruns \in Runs)'
      /\ (file \in [Symbols -> Payloads \cup {None}])'
  BY <1>2, Untouched
<1>4. TablesTyped'
  BY <1>1 DEF Calculate, PersistEvidence, Typed, TypeOK, TablesTyped
<1>5. /\ ses' \in [Sessions -> Memory] /\ \A t \in Sessions : ses'[t].idx \in DOMAIN Selected[t]
      /\ Working' /\ Filed'
  <2> DEFINE g == [run |-> ses[s].run, candle |-> now]
             fresh(ok, whole) == [ses[s] EXCEPT !.gen = g, !.symbol = Sym(s), !.ok = ok, !.whole = whole]
             kept(ok) == [ses[s] EXCEPT !.ok = ok]
  <2>1. PICK ok \in BOOLEAN, whole \in BOOLEAN :
           \/ Go(s, "calculate", "save", fresh(ok, whole))
           \/ ses[s].gen # None /\ Go(s, "calculate", "save", kept(ok))
    <3>1. Succeeds(s, "fields") \subseteq BOOLEAN
      BY DEF Succeeds
    <3>2. PICK ok \in Succeeds(s, "fields"), whole \in Succeeds(s, "fields") :
           \/ Go(s, "calculate", "save", fresh(ok, whole))
           \/ ses[s].gen # None /\ Go(s, "calculate", "save", kept(ok))
      BY Zenon DEF Calculate
    <3> QED BY <3>1, <3>2
  <2>2. g \in Generations /\ g # None
    BY <1>1, NoneIsApart DEF Generations
  <2>3. CASE Go(s, "calculate", "save", fresh(ok, whole))
    <3> HIDE DEF g
    <3>1. fresh(ok, whole) \in Memory /\ fresh(ok, whole).idx = ses[s].idx /\ fresh(ok, whole).gen = g
      BY ZenonT(40), <1>1, <2>2 DEF Memory
    <3>2. Fits(s, "save", fresh(ok, whole))
      BY <1>1, <2>2, <3>1 DEF Fits
    <3> HIDE DEF fresh
    <3> QED BY <1>3, <2>3, <3>1, <3>2, PlacesAre, GoKeeps
  <2>4. CASE ses[s].gen # None /\ Go(s, "calculate", "save", kept(ok))
    <3>1. kept(ok) \in Memory /\ kept(ok).idx = ses[s].idx /\ kept(ok).gen = ses[s].gen
      BY <1>1 DEF Memory
    <3>2. Fits(s, "save", kept(ok))
      BY <1>1, <2>4, <3>1 DEF Fits
    <3> HIDE DEF kept
    <3> QED BY <1>3, <2>4, <3>1, <3>2, PlacesAre, GoKeeps
  <2> QED BY <2>1, <2>3, <2>4
<1> QED BY <1>3, <1>4, <1>5, TypedParts

LEMMA RunnerFailsTypes == ASSUME Typed, NEW s \in Sessions, RunnerFails(s) PROVE Typed'
<1>1. ses[s] \in Memory /\ ses[s].idx \in DOMAIN Selected[s]
  BY ItsMemory DEF Typed
<1>2. NextSymbol(s, "calculate", ses[s]) /\ UNCHANGED <<now, nruns, file, tables>>
  BY DEF RunnerFails
<1>3. /\ FilesStay /\ TablesTyped' /\ (now \in 0..MaxTime)' /\ (nruns \in Runs)'
      /\ (file \in [Symbols -> Payloads \cup {None}])'
  BY <1>2, Untouched
<1>4. /\ ses' \in [Sessions -> Memory] /\ \A t \in Sessions : ses'[t].idx \in DOMAIN Selected[t]
      /\ Working' /\ Filed'
  BY <1>1, <1>2, <1>3, PlacesAre, NextSymbolKeeps
<1> QED BY <1>3, <1>4, TypedParts

\* What the cache file of a session with a generation holds.
LEMMA PayloadTypes ==
  ASSUME TypeOK, NEW s \in Sessions, ses[s].gen # None
  PROVE  Payload(ses[s]) \in Payloads /\ Payload(ses[s]) # None /\ ses[s].gen \in Generations
<1>1. ses[s] \in Memory
  BY DEF TypeOK
<1>2. ses[s].gen \in Generations
  BY <1>1 DEF Memory
<1>3. Payload(ses[s]) \in Payloads
  BY <1>1, <1>2 DEF Memory, Payload, Payloads
<1> QED BY <1>2, <1>3, NoneIsApart

LEMMA SaveTypes == ASSUME Typed, NEW s \in Sessions, Save(s) PROVE Typed'
<1>1. /\ ses[s] \in Memory /\ ses[s].idx \in DOMAIN Selected[s] /\ Sym(s) \in Symbols
      /\ ses[s].pc = "save" /\ Go(s, "save", "build", ses[s])
  BY ItsMemory DEF Typed, Save, Go
<1>2. ses[s].gen # None /\ Payload(ses[s]) \in Payloads /\ Payload(ses[s]) # None
  BY <1>1, PayloadTypes DEF Typed, Working
<1>3. file \in [Symbols -> Payloads \cup {None}]
  BY DEF Typed, TypeOK
<1>4. \/ file' = [file EXCEPT ![Sym(s)] = Payload(ses[s])]
      \/ file' = [file EXCEPT ![Sym(s)] = @]
  BY DEF Save
<1>5. FilesStay /\ (file \in [Symbols -> Payloads \cup {None}])'
  BY <1>1, <1>2, <1>3, <1>4 DEF FilesStay
<1>6. UNCHANGED tables /\ UNCHANGED now /\ UNCHANGED nruns
  BY DEF Save
<1>7. TablesTyped' /\ (now \in 0..MaxTime)' /\ (nruns \in Runs)'
  BY <1>6, Untouched
<1>8. Fits(s, "build", ses[s])
  BY <1>1, <1>2 DEF Fits
<1>9. /\ ses' \in [Sessions -> Memory] /\ \A t \in Sessions : ses'[t].idx \in DOMAIN Selected[t]
      /\ Working' /\ Filed'
  BY <1>1, <1>5, <1>8, PlacesAre, GoKeeps
<1> QED BY <1>5, <1>7, <1>9, TypedParts

LEMMA BuildTypes == ASSUME Typed, NEW s \in Sessions, Build(s) PROVE Typed'
<1> DEFINE m == [ses[s] EXCEPT !.sha = file[Sym(s)]]
           to == IF file[Sym(s)] = None THEN "child" ELSE "publish"
<1>1. /\ ses[s] \in Memory /\ ses[s].idx \in DOMAIN Selected[s] /\ Sym(s) \in Symbols
      /\ ses[s].pc = "build"
  BY ItsMemory DEF Typed, Build, Go
<1>2. file[Sym(s)] \in Payloads \cup {None} /\ ses[s].gen # None
  BY <1>1 DEF Typed, TypeOK, Working
<1>3. m \in Memory /\ m.idx = ses[s].idx /\ m.gen = ses[s].gen /\ m.sha = file[Sym(s)]
  BY <1>1, <1>2 DEF Memory
<1>4. Go(s, "build", to, m) /\ UNCHANGED <<now, nruns, file, tables>> /\ to \in Places
  BY PlacesAre DEF Build
<1>5. Fits(s, to, m)
  BY <1>1, <1>2, <1>3 DEF Fits, Sym
<1> HIDE DEF m, to
<1> QED BY <1>3, <1>4, <1>5, PlacesAre, MemoryStep
\* A step that leaves the clock, the runs and the files alone, and keeps the tables typed.
LEMMA TableStep ==
  ASSUME Typed, NEW s \in Sessions, NEW from \in Places, NEW to \in Places, NEW m \in Memory,
         Go(s, from, to, m), Fits(s, to, m), UNCHANGED <<now, nruns, file>>, TablesTyped'
  PROVE  Typed'
<1>1. /\ FilesStay /\ (now \in 0..MaxTime)' /\ (nruns \in Runs)'
      /\ (file \in [Symbols -> Payloads \cup {None}])'
  BY Untouched
<1>2. /\ ses' \in [Sessions -> Memory] /\ \A t \in Sessions : ses'[t].idx \in DOMAIN Selected[t]
      /\ Working' /\ Filed'
  BY <1>1, GoKeeps
<1> QED BY <1>1, <1>2, TypedParts

LEMMA PublishTypes == ASSUME Typed, NEW s \in Sessions, Publish(s) PROVE Typed'
<1>1. /\ ses[s] \in Memory /\ ses[s].idx \in DOMAIN Selected[s] /\ Sym(s) \in Symbols
      /\ ses[s].pc = "publish" /\ ses[s].run \in Runs
  BY ItsMemory DEF Typed, Publish, Go, Memory
<1>2. /\ ses[s].gen # None /\ ses[s].sha # None /\ file[Sym(s)] # None
      /\ ses[s].gen \in Generations /\ ses[s].sha \in Payloads
  BY <1>1 DEF Typed, Working, Filed, Memory
<1>3. UNCHANGED <<now, nruns, file>> /\ UNCHANGED <<evidence, registry, pubs, daily, audit>>
  BY DEF Publish
<1> DEFINE row == [run |-> ses[s].run, symbol |-> Sym(s), gen |-> ses[s].gen, sha |-> ses[s].sha]
           m(v) == [ses[s] EXCEPT !.mark = v]
<1>4. row \in Child
  BY <1>1, <1>2 DEF Child
<1>5. TablesTyped'
  <2>1. children' = children \cup {row} \/ children' = children
    BY DEF Publish
  <2> HIDE DEF row
  <2> QED BY <1>3, <1>4, <2>1 DEF TablesTyped, Typed, TypeOK
<1>6. Go(s, "publish", "register", m(TRUE)) \/ Go(s, "publish", "child", m(FALSE))
  BY DEF Publish
<1>7. \A v \in BOOLEAN : /\ m(v) \in Memory /\ m(v).idx = ses[s].idx /\ m(v).gen = ses[s].gen
                         /\ m(v).sha = ses[s].sha
  BY <1>1 DEF Memory
<1>8. Fits(s, "register", m(TRUE)) /\ Fits(s, "child", m(FALSE))
  BY <1>1, <1>2, <1>7 DEF Fits, Sym
<1>9. m(TRUE) \in Memory /\ m(FALSE) \in Memory
  BY <1>7
<1> HIDE DEF m
<1>10. CASE Go(s, "publish", "register", m(TRUE))
  BY <1>3, <1>5, <1>8, <1>9, <1>10, PlacesAre, TableStep
<1>11. CASE Go(s, "publish", "child", m(FALSE))
  BY <1>3, <1>5, <1>8, <1>9, <1>11, PlacesAre, TableStep
<1> QED BY <1>6, <1>10, <1>11

LEMMA RegisterTypes == ASSUME Typed, NEW s \in Sessions, Register(s) PROVE Typed'
<1>1. /\ ses[s] \in Memory /\ ses[s].idx \in DOMAIN Selected[s] /\ Sym(s) \in Symbols
      /\ ses[s].pc = "register" /\ ses[s].run \in Runs
  BY ItsMemory DEF Typed, Register, Go, Memory
<1>2. /\ ses[s].gen # None /\ file[Sym(s)] # None
      /\ ses[s].gen \in Generations /\ file[Sym(s)] \in Payloads
  BY <1>1 DEF Typed, TypeOK, Working, Filed, Memory
<1>3. /\ UNCHANGED <<now, nruns, file>> /\ UNCHANGED <<evidence, children, pubs, daily, audit>>
      /\ Go(s, "register", "child", ses[s])
  BY DEF Register
<1> DEFINE row == [run |-> ses[s].run, symbol |-> Sym(s), gen |-> ses[s].gen, sha |-> file[Sym(s)]]
<1>4. row \in Child
  BY <1>1, <1>2 DEF Child
<1>5. registry' = Append(registry, row)
  BY DEF Register
<1>6. TablesTyped'
  <2> HIDE DEF row
  <2> QED BY <1>3, <1>4, <1>5 DEF TablesTyped, Typed, TypeOK
<1>7. Fits(s, "child", ses[s])
  BY <1>1, <1>2 DEF Fits
<1> QED BY <1>1, <1>3, <1>6, <1>7, PlacesAre, TableStep

LEMMA RowTypes ==
  ASSUME TypeOK, NEW s \in Sessions, ses[s].gen # None,
         NEW status \in {"PENDING_RELOAD", "FAILED_VALIDATION", "COMPLETED"}
  PROVE  Row(s, status) \in Publication
<1>1. ses[s] \in Memory /\ Sym(s) \in Symbols
  BY ItsMemory
<1>2. Identity(ses[s]) \in Runs /\ ses[s].gen \in Generations
  BY <1>1 DEF Memory, Identity
<1>3. file[Sym(s)] \in Payloads \cup {None}
  BY <1>1 DEF TypeOK
<1> QED BY <1>1, <1>2, <1>3 DEF Row, Publication

LEMMA PublishChildTypes == ASSUME Typed, NEW s \in Sessions, PublishChild(s) PROVE Typed'
<1>1. /\ ses[s] \in Memory /\ ses[s].idx \in DOMAIN Selected[s] /\ ses[s].pc = "child"
      /\ ses[s].gen # None
  BY ItsMemory DEF Typed, Working, PublishChild, Go
<1> DEFINE m(v) == [ses[s] EXCEPT !.valid = v]
           valid == ses[s].whole /\ HasField10(ses[s], Sym(s), ses[s].mark) /\ file[Sym(s)] # None
           row == Row(s, IF valid THEN "PENDING_RELOAD" ELSE "FAILED_VALIDATION")
<1>2. row \in Publication
  BY <1>1, RowTypes DEF Typed
<1>3. /\ UNCHANGED <<now, nruns, file>> /\ UNCHANGED <<evidence, children, registry, daily, audit>>
      /\ pubs' = {p \in pubs : ~SameRow(p, row)} \cup {row}
      /\ Go(s, "child", "reload", m(valid))
  BY DEF PublishChild
<1>4. valid \in BOOLEAN
  BY <1>1 DEF Memory
<1>5. TablesTyped'
  <2> HIDE DEF row
  <2> QED BY <1>2, <1>3 DEF TablesTyped, Typed, TypeOK
<1> HIDE DEF valid
<1>6. m(valid) \in Memory /\ m(valid).idx = ses[s].idx /\ m(valid).gen = ses[s].gen
  BY <1>1, <1>4 DEF Memory
<1>7. Fits(s, "reload", m(valid))
  BY <1>1, <1>6 DEF Fits
<1> HIDE DEF m
<1> QED BY <1>3, <1>5, <1>6, <1>7, PlacesAre, TableStep

LEMMA ReloadTypes == ASSUME Typed, NEW s \in Sessions, Reload(s) PROVE Typed'
<1> DEFINE c == [ses[s] EXCEPT !.completed = @ \cup {Sym(s)}]
           m == IF Completes(s) THEN c ELSE ses[s]
           status == IF ReloadPasses(Sym(s)) THEN "COMPLETED" ELSE "FAILED_VALIDATION"
<1>1. /\ ses[s] \in Memory /\ ses[s].idx \in DOMAIN Selected[s] /\ Sym(s) \in Symbols
  BY ItsMemory DEF Typed
<1>2. /\ UNCHANGED now /\ UNCHANGED nruns /\ UNCHANGED file
      /\ UNCHANGED <<evidence, children, registry, daily, audit>>
      /\ pubs' = {IF SameRow(p, Row(s, status)) THEN [p EXCEPT !.status = status] ELSE p : p \in pubs}
      /\ NextSymbol(s, "reload", m)
  BY DEF Reload
<1>3. \A p \in Publication : [p EXCEPT !.status = status] \in Publication
  BY DEF Publication
<1>4. TablesTyped'
  <2>1. pubs' \subseteq Publication
    BY <1>2, <1>3 DEF Typed, TypeOK
  <2> QED BY <1>2, <2>1 DEF TablesTyped, Typed, TypeOK
<1>5. /\ FilesStay /\ (now \in 0..MaxTime)' /\ (nruns \in Runs)'
      /\ (file \in [Symbols -> Payloads \cup {None}])'
  BY <1>2, Untouched
<1>6. c \in Memory /\ c.idx = ses[s].idx
  BY <1>1 DEF Memory
<1>7. m \in Memory /\ m.idx \in DOMAIN Selected[s]
  BY <1>1, <1>6
<1> HIDE DEF m
<1>8. /\ ses' \in [Sessions -> Memory] /\ \A t \in Sessions : ses'[t].idx \in DOMAIN Selected[t]
      /\ Working' /\ Filed'
  BY <1>2, <1>5, <1>7, PlacesAre, NextSymbolKeeps
<1> QED BY <1>4, <1>5, <1>8, TypedParts

LEMMA FinishTypes == ASSUME Typed, NEW s \in Sessions, Finish(s) PROVE Typed'
<1>1. /\ ses[s] \in Memory /\ ses[s].idx \in DOMAIN Selected[s] /\ ses[s].completed \subseteq Symbols
  BY ItsMemory DEF Typed, Memory
<1>2. Selected[s][1] \in Symbols
  BY SelectedIsSeq
<1>3. PICK x \in Symbols : Go(s, "finish", "show", Activated(ses[s], x))
  BY <1>1, <1>2 DEF Finish
<1>4. Activated(ses[s], x) \in Memory /\ Activated(ses[s], x).idx = ses[s].idx
  BY <1>1, ActivatedIsMemory DEF Typed
<1>5. Fits(s, "show", Activated(ses[s], x)) /\ UNCHANGED <<now, nruns, file, tables>>
  BY <1>1, <1>4 DEF Fits, Finish
<1> QED BY <1>3, <1>4, <1>5, PlacesAre, MemoryStep

LEMMA ShowRunTypes == ASSUME Typed, NEW s \in Sessions, ShowRun(s) PROVE Typed'
<1> DEFINE v == Summary(ses[s].run)
           c == AllCompleted(s)
           m == [ses[s] EXCEPT !.view = v, !.manifest = ses[s].run, !.claimed = c]
<1>1. ses[s] \in Memory /\ ses[s].idx \in DOMAIN Selected[s] /\ ses[s].run \in Runs
  BY ItsMemory DEF Typed, Memory
<1>2. v \in Views /\ c \in BOOLEAN
  BY DEF Summary, Views, AllCompleted
<1>3. Go(s, "show", "look", m) /\ UNCHANGED <<now, nruns, file, tables>>
  BY DEF ShowRun
<1> HIDE DEF v, c
<1>4. m \in Memory /\ m.idx = ses[s].idx
  BY <1>1, <1>2 DEF Memory
<1>5. Fits(s, "look", m)
  BY <1>1, <1>4 DEF Fits
<1> HIDE DEF m
<1> QED BY <1>3, <1>4, <1>5, PlacesAre, MemoryStep

LEMMA CandidateTypes ==
  ASSUME TypeOK, NEW s \in Sessions, NEW d
  PROVE  {[symbol |-> x, payload |-> file[x], eligible |-> Eligible(s, x, d)] : x \in Mine(s)}
           \subseteq Candidate
<1> SUFFICES ASSUME NEW x \in Mine(s)
             PROVE  [symbol |-> x, payload |-> file[x], eligible |-> Eligible(s, x, d)] \in Candidate
  OBVIOUS
<1>1. x \in Symbols
  BY SelectedIsSeq
<1>2. file[x] \in Payloads \cup {None}
  BY <1>1 DEF TypeOK
<1>3. Eligible(s, x, d) \in BOOLEAN
  BY DEF Eligible
<1> QED BY <1>1, <1>2, <1>3 DEF Candidate

\* The two ways out of the first look at the day.
LEMMA LookCases ==
  ASSUME Typed, NEW s \in Sessions, DailyLook(s)
  PROVE  /\ UNCHANGED <<now, nruns, file, tables>>
         /\ \/ Go(s, "look", "complete", ses[s])
            \/ /\ AllCompleted(s)
               /\ \E d \in 0..Day(MaxTime), late \in BOOLEAN :
                    Go(s, "look", "second",
                       [ses[s] EXCEPT !.day = d, !.late = late,
                          !.rows = {[symbol |-> x, payload |-> file[x],
                                     eligible |-> Eligible(s, x, d)] : x \in Mine(s)}])
<1>1. UNCHANGED <<now, nruns, file, tables>>
  BY DEF DailyLook
<1>2. CASE ~AllCompleted(s)
  BY <1>1, <1>2 DEF DailyLook
<1>3. CASE AllCompleted(s)
  <2>1. PICK t \in BrokerTimes(s) :
          IF daily[Day(t)] # None THEN Go(s, "look", "complete", ses[s])
          ELSE Go(s, "look", "second",
                  [ses[s] EXCEPT !.day = Day(t), !.late = ~BeforeCutoff(t),
                     !.rows = {[symbol |-> x, payload |-> file[x],
                                eligible |-> Eligible(s, x, Day(t))] : x \in Mine(s)}])
    BY <1>3 DEF DailyLook
  <2>2. t \in 0..MaxTime
    <3>1. now \in 0..MaxTime /\ t \in 0..now
      BY DEF BrokerTimes, Typed, TypeOK
    <3> QED BY <3>1, SymbolRunsOK
  <2>3. Day(t) \in 0..Day(MaxTime) /\ (~BeforeCutoff(t)) \in BOOLEAN
    BY <2>2, Bounds DEF BeforeCutoff
  <2> QED BY <1>1, <1>3, <2>1, <2>3
<1> QED BY <1>2, <1>3

LEMMA DailyLookTypes == ASSUME Typed, NEW s \in Sessions, DailyLook(s) PROVE Typed'
<1> DEFINE rows(d) == {[symbol |-> x, payload |-> file[x], eligible |-> Eligible(s, x, d)] :
                         x \in Mine(s)}
           n(d, late) == [ses[s] EXCEPT !.day = d, !.late = late, !.rows = rows(d)]
<1>1. /\ ses[s] \in Memory /\ ses[s].idx \in DOMAIN Selected[s]
      /\ UNCHANGED <<now, nruns, file, tables>>
  BY ItsMemory, LookCases DEF Typed
<1>2. CASE Go(s, "look", "complete", ses[s])
  <2>1. Fits(s, "complete", ses[s])
    BY <1>1 DEF Fits
  <2> QED BY <1>1, <1>2, <2>1, PlacesAre, MemoryStep
<1>3. ASSUME NEW d \in 0..Day(MaxTime), NEW late \in BOOLEAN, Go(s, "look", "second", n(d, late))
      PROVE  Typed'
  <2>1. rows(d) \subseteq Candidate
    BY CandidateTypes DEF Typed
  <2> HIDE DEF rows
  <2>2. n(d, late) \in Memory /\ n(d, late).idx = ses[s].idx
    BY <1>1, <2>1 DEF Memory
  <2>3. Fits(s, "second", n(d, late))
    BY <1>1, <2>2 DEF Fits
  <2> HIDE DEF n
  <2> QED BY <1>1, <1>3, <2>2, <2>3, PlacesAre, MemoryStep
<1> QED BY <1>2, <1>3, LookCases

LEMMA DailySecondTypes == ASSUME Typed, NEW s \in Sessions, DailySecond(s) PROVE Typed'
<1> DEFINE to == IF daily[ses[s].day] = None /\ ses[s].late THEN "insert" ELSE "complete"
<1>1. /\ ses[s] \in Memory /\ ses[s].idx \in DOMAIN Selected[s]
  BY ItsMemory DEF Typed
<1>2. Go(s, "second", to, ses[s]) /\ UNCHANGED <<now, nruns, file, tables>> /\ to \in Places
  BY PlacesAre DEF DailySecond
<1>3. Fits(s, to, ses[s])
  BY <1>1 DEF Fits
<1> HIDE DEF to
<1> QED BY <1>1, <1>2, <1>3, PlacesAre, MemoryStep

LEMMA DailyInsertTypes == ASSUME Typed, NEW s \in Sessions, DailyInsert(s) PROVE Typed'
<1>1. /\ ses[s] \in Memory /\ ses[s].idx \in DOMAIN Selected[s]
      /\ ses[s].run \in Runs /\ ses[s].rows \subseteq Candidate
  BY ItsMemory DEF Typed, Memory
<1>2. /\ Go(s, "insert", "complete", ses[s]) /\ UNCHANGED <<now, nruns, file>>
      /\ UNCHANGED <<evidence, children, registry, pubs, audit>>
      /\ daily' = [daily EXCEPT ![ses[s].day] = IF @ = None THEN Snapshot(s) ELSE @]
  BY DEF DailyInsert
<1>3. Snapshot(s) \in [run : Runs, rows : SUBSET Candidate]
  BY <1>1 DEF Snapshot
<1>4. TablesTyped'
  BY <1>2, <1>3 DEF TablesTyped, Typed, TypeOK
<1>5. Fits(s, "complete", ses[s])
  BY <1>1 DEF Fits
<1> QED BY <1>1, <1>2, <1>4, <1>5, PlacesAre, TableStep

LEMMA CompleteTypes == ASSUME Typed, NEW s \in Sessions, Complete(s) PROVE Typed'
<1> DEFINE v == Summary(ses[s].run)
           m == [ses[s] EXCEPT !.view = v]
<1>1. ses[s] \in Memory /\ ses[s].idx \in DOMAIN Selected[s]
  BY ItsMemory DEF Typed
<1>2. v \in Views
  BY DEF Summary, Views
<1>3. /\ UNCHANGED <<now, nruns, file>> /\ UNCHANGED <<evidence, children, registry, pubs, daily>>
      /\ \/ Go(s, "complete", "strict", m) /\ audit' = audit \cup {m.run}
         \/ Go(s, "complete", "partial", m) /\ UNCHANGED audit
  BY DEF Complete
<1> HIDE DEF v
<1>4. m \in Memory /\ m.idx = ses[s].idx /\ m.run \in Runs
  BY <1>1, <1>2 DEF Memory
<1> HIDE DEF m
<1>5. TablesTyped'
  BY <1>3, <1>4 DEF TablesTyped, Typed, TypeOK
<1>6. Fits(s, "strict", m) /\ Fits(s, "partial", m)
  BY <1>1, <1>4 DEF Fits
<1> QED BY <1>3, <1>4, <1>5, <1>6, PlacesAre, TableStep

LEMMA KeepCompleteIsMemory ==
  ASSUME NEW m \in Memory
  PROVE  KeepComplete(m) \in Memory /\ KeepComplete(m).idx = m.idx
<1> DEFINE kept == IF m.complete # 0 THEN m.complete ELSE m.previous
           r == IF kept # 0 THEN kept ELSE m.manifest
           c == kept # 0
<1>1. r \in Runs /\ c \in BOOLEAN
  BY DEF Memory
<1>2. KeepComplete(m) = [m EXCEPT !.manifest = r, !.claimed = c]
  BY DEF KeepComplete, Memory
<1> HIDE DEF r, c
<1> QED BY ZenonT(40), <1>1, <1>2 DEF Memory

LEMMA EndTypes ==
  ASSUME Typed, NEW s \in Sessions, Strict(s) \/ Partial(s) \/ End(s)
  PROVE  Typed'
<1> DEFINE done == [ses[s] EXCEPT !.complete = ses[s].run]
           e == EndOfRun(ses[s])
           m == [e EXCEPT !.ended = TRUE]
<1>1. ses[s] \in Memory /\ ses[s].idx \in DOMAIN Selected[s]
  BY ItsMemory DEF Typed
<1>2. UNCHANGED <<now, nruns, file, tables>>
  BY DEF Strict, Partial, End
<1>3. CASE Strict(s)
  <2>1. Go(s, "strict", "end", done)
    BY <1>3 DEF Strict
  <2>2. done \in Memory /\ done.idx = ses[s].idx
    BY <1>1 DEF Memory
  <2>3. Fits(s, "end", done)
    BY <1>1, <2>2 DEF Fits
  <2> HIDE DEF done
  <2> QED BY <1>2, <2>1, <2>2, <2>3, PlacesAre, MemoryStep
<1>4. CASE Partial(s)
  <2>1. Go(s, "partial", "end", KeepComplete(ses[s]))
    BY <1>4 DEF Partial
  <2>2. Fits(s, "end", KeepComplete(ses[s]))
    BY <1>1, KeepCompleteIsMemory DEF Fits
  <2> QED BY <1>1, <1>2, <2>1, <2>2, KeepCompleteIsMemory, PlacesAre, MemoryStep
<1>5. CASE End(s)
  <2>1. Go(s, "end", "idle", m)
    BY <1>5 DEF End
  <2>2. e \in Memory /\ e.idx = 1
    BY <1>1, EndsAreMemory
  <2> HIDE DEF e
  <2>3. m \in Memory /\ m.idx = 1
    BY <2>2 DEF Memory
  <2>4. Fits(s, "idle", m)
    BY <2>3, SelectedIsSeq DEF Fits
  <2> HIDE DEF m
  <2> QED BY <1>2, <2>1, <2>3, <2>4, PlacesAre, MemoryStep
<1> QED BY <1>3, <1>4, <1>5

LEMMA ViewTypes == ASSUME Typed, NEW s \in Sessions, View(s) PROVE Typed'
<1> DEFINE m(run) == [ses[s] EXCEPT !.view = Summary(run)]
<1>1. ses[s] \in Memory /\ ses[s].idx \in DOMAIN Selected[s]
  BY ItsMemory DEF Typed
<1>2. PICK run : Go(s, "idle", "idle", m(run))
  BY DEF View
<1>3. Summary(run) \in Views
  BY DEF Summary, Views
<1>4. m(run) \in Memory /\ m(run).idx = ses[s].idx
  BY <1>1, <1>3 DEF Memory
<1>5. Fits(s, "idle", m(run)) /\ UNCHANGED <<now, nruns, file, tables>>
  BY <1>1, <1>4 DEF Fits, View
<1> HIDE DEF m
<1> QED BY <1>2, <1>4, <1>5, PlacesAre, MemoryStep

LEMMA InterruptTypes == ASSUME Typed, NEW s \in Sessions, Interrupt(s) PROVE Typed'
<1> DEFINE e == EndOfRun(EndOfBody(ses[s]))
           m(child) == [e EXCEPT !.child = child]
<1>1. /\ e \in Memory /\ e.idx = 1 /\ ses[s].pc \in Places /\ ses[s].child \in Runs
  BY ItsMemory, EndsAreMemory DEF Typed, Memory
<1>2. PICK child \in {ses[s].child, 0} : Go(s, ses[s].pc, "idle", m(child))
  BY DEF Interrupt
<1>3. UNCHANGED <<now, nruns, file, tables>>
  BY DEF Interrupt
<1> HIDE DEF e
<1>4. m(child) \in Memory /\ m(child).idx = 1
  BY <1>1, Bounds DEF Memory
<1>5. Fits(s, "idle", m(child))
  BY <1>4, SelectedIsSeq DEF Fits
<1> HIDE DEF m
<1> QED BY <1>1, <1>2, <1>3, <1>4, <1>5, PlacesAre, MemoryStep

LEMMA RestoredIsMemory ==
  ASSUME TypeOK, NEW i \in Latest
  PROVE  LET f == registry[i].sha IN
         [Fresh EXCEPT !.run = f.run, !.child = f.child, !.gen = f.gen, !.view = f.view,
                       !.symbol = registry[i].symbol, !.whole = f.whole] \in Memory
<1>1. registry[i] \in Child
  <2>1. registry \in Seq(Child) /\ i \in DOMAIN registry
    BY DEF Latest, TypeOK
  <2> QED BY <2>1
<1>2. /\ registry[i].symbol \in Symbols /\ registry[i].sha \in Payloads
  BY <1>1 DEF Child
<1>3. /\ registry[i].sha.run \in Runs /\ registry[i].sha.child \in Runs
      /\ registry[i].sha.gen \in Generations /\ registry[i].sha.view \in Views
      /\ registry[i].sha.whole \in BOOLEAN
  BY <1>2 DEF Payloads
<1>4. Fresh \in Memory
  BY FreshIsMemory
<1> QED BY <1>2, <1>3, <1>4 DEF Memory

\* A restarted session is idle at its first symbol.
LEMMA RestartEffect ==
  ASSUME TypeOK, NEW s \in Sessions, Restart(s)
  PROVE  /\ ses'[s] \in Memory /\ ses'[s].idx = 1 /\ ses'[s].pc = "idle"
         /\ ses'[s].complete = 0 /\ ses'[s].completed = {} /\ ses' \in [Sessions -> Memory]
         /\ \A t \in Sessions : t # s => ses'[t] = ses[t]
         /\ UNCHANGED <<now, nruns, file, tables>>
<1> DEFINE r(i) == LET f == registry[i].sha IN
             [Fresh EXCEPT !.run = f.run, !.child = f.child, !.gen = f.gen, !.view = f.view,
                           !.symbol = registry[i].symbol, !.whole = f.whole]
           some == \E i \in Latest : file[registry[i].symbol] = registry[i].sha
<1>1. PICK m : /\ ses' = [ses EXCEPT ![s] = m]
               /\ m \in IF some THEN {r(i) : i \in Latest} ELSE {Fresh}
  BY Zenon DEF Restart
<1>2. m \in Memory /\ m.idx = 1 /\ m.pc = "idle" /\ m.complete = 0 /\ m.completed = {}
  <2>1. CASE m = Fresh
    BY <2>1, FreshIsMemory DEF Fresh
  <2>2. ASSUME NEW i \in Latest, m = r(i) PROVE m \in Memory /\ m.idx = 1 /\ m.pc = "idle" /\ m.complete = 0 /\ m.completed = {}
    <3>1. r(i) \in Memory
      BY RestoredIsMemory
    <3>2. r(i).idx = 1 /\ r(i).pc = "idle" /\ r(i).complete = 0 /\ r(i).completed = {}
      BY DEF Fresh
    <3> QED BY <2>2, <3>1, <3>2
  <2> QED BY <1>1, <2>1, <2>2
<1>3. ses \in [Sessions -> Memory]
  BY DEF TypeOK
<1>4. UNCHANGED <<now, nruns, file, tables>>
  BY DEF Restart
<1> HIDE DEF r, some
<1> QED BY <1>1, <1>2, <1>3, <1>4

LEMMA RestartTypes == ASSUME Typed, NEW s \in Sessions, Restart(s) PROVE Typed'
<1>1. /\ ses'[s] \in Memory /\ ses'[s].idx = 1 /\ ses'[s].pc = "idle" /\ ses' \in [Sessions -> Memory]
      /\ \A t \in Sessions : t # s => ses'[t] = ses[t]
      /\ UNCHANGED <<now, nruns, file, tables>>
  BY RestartEffect DEF Typed
<1>2. /\ TablesTyped' /\ (now \in 0..MaxTime)' /\ (nruns \in Runs)'
      /\ (file \in [Symbols -> Payloads \cup {None}])'
  BY <1>1, Untouched
<1>3. \A t \in Sessions : ses'[t].idx \in DOMAIN Selected[t]
  <2>1. SUFFICES ASSUME NEW t \in Sessions PROVE ses'[t].idx \in DOMAIN Selected[t]
    OBVIOUS
  <2> QED BY <1>1, SelectedIsSeq DEF Typed, TypeOK
<1>4. Working'
  BY <1>1 DEF Typed, Working
<1>5. Filed'
  BY <1>1 DEF Typed, Filed, Sym
<1> QED BY <1>1, <1>2, <1>3, <1>4, <1>5, TypedParts

LEMMA TickTypes == ASSUME Typed, Tick PROVE Typed'
<1>1. now' \in 0..MaxTime /\ UNCHANGED <<nruns, file, tables>> /\ UNCHANGED ses
  BY SymbolRunsOK DEF Tick, Typed, TypeOK
<1>2. TablesTyped' /\ (nruns \in Runs)' /\ (file \in [Symbols -> Payloads \cup {None}])'
  BY <1>1, Untouched
<1> QED BY <1>1, <1>2 DEF Typed, TypeOK, TablesTyped, Working, Filed, Sym

LEMMA InitTypes == Init => Typed
<1> SUFFICES ASSUME Init PROVE Typed
  OBVIOUS
<1>1. \A s \in Sessions : ses[s] = Fresh
  BY DEF Init
<1>2. TypeOK
  BY <1>1, Bounds, FreshIsMemory, SelectedIsSeq DEF Init, TypeOK
<1>3. Working /\ Filed
  BY <1>1, FreshIsMemory DEF Working, Filed
<1> QED BY <1>2, <1>3 DEF Typed

LEMMA NextTypes == Typed /\ [Next]_vars => Typed'
<1> SUFFICES ASSUME Typed, [Next]_vars PROVE Typed'
  OBVIOUS
<1>1. CASE UNCHANGED vars
  BY <1>1 DEF vars, tables, Typed, TypeOK, Working, Filed, Sym
<1>2. CASE Tick
  BY <1>2, TickTypes
<1>3. ASSUME NEW s \in Sessions,
             \/ Begin(s) \/ Activate(s) \/ Calculate(s) \/ RunnerFails(s) \/ Save(s)
             \/ Build(s) \/ Publish(s) \/ Register(s) \/ PublishChild(s)
      PROVE  Typed'
  BY <1>3, BeginTypes, ActivateTypes, CalculateTypes, RunnerFailsTypes, SaveTypes, BuildTypes,
     PublishTypes, RegisterTypes, PublishChildTypes
<1>4. ASSUME NEW s \in Sessions,
             \/ Reload(s) \/ Finish(s) \/ ShowRun(s) \/ DailyLook(s) \/ DailySecond(s)
             \/ DailyInsert(s) \/ Complete(s) \/ Strict(s) \/ Partial(s) \/ End(s)
             \/ View(s) \/ Interrupt(s) \/ Restart(s)
      PROVE  Typed'
  BY <1>4, ReloadTypes, FinishTypes, ShowRunTypes, DailyLookTypes, DailySecondTypes,
     DailyInsertTypes, CompleteTypes, EndTypes, ViewTypes, InterruptTypes, RestartTypes
<1> QED BY <1>1, <1>2, <1>3, <1>4 DEF Next

LEMMA AlwaysTyped == Spec => []Typed
<1> QED BY InitTypes, NextTypes, PTL DEF Spec

\* Every variable keeps its type whatever the sessions, the faults and the clock do.
THEOREM TypesHold == Spec => []TypeOK
<1>1. Typed => TypeOK
  BY DEF Typed
<1> QED BY <1>1, AlwaysTyped, PTL
-----------------------------------------------------------------------------
(* What each action does to the memory of its session                      *)

LEMMA GoFields ==
  ASSUME TypeOK, NEW s \in Sessions, NEW from \in Places, NEW to \in Places, NEW m \in Memory,
         Go(s, from, to, m)
  PROVE  /\ ses'[s].run = m.run /\ ses'[s].child = m.child /\ ses'[s].valid = m.valid
         /\ ses'[s].completed = m.completed /\ ses'[s].day = m.day /\ ses'[s].late = m.late
         /\ ses'[s].rows = m.rows /\ ses'[s].manifest = m.manifest /\ ses'[s].complete = m.complete
         /\ ses'[s].ended = m.ended
  BY DEF Go, Memory, TypeOK

\* The memory of the run is kept, and that of the symbol.
SameRun(s) ==
  /\ ses'[s].run = ses[s].run /\ ses'[s].day = ses[s].day /\ ses'[s].late = ses[s].late
  /\ ses'[s].rows = ses[s].rows /\ ses'[s].complete = ses[s].complete
  /\ ses'[s].ended = ses[s].ended
SameManifest(s) == ses'[s].manifest = ses[s].manifest
SameCompleted(s) == ses'[s].completed = ses[s].completed
SameSymbol(s) == ses'[s].idx = ses[s].idx /\ ses'[s].gen = ses[s].gen
OnlyOf(s) == \A t \in Sessions : t # s => ses'[t] = ses[t]
Moves(s, from, to) == ses[s].pc = from /\ ses'[s].pc = to /\ OnlyOf(s)

\* The end of the loop body: the next symbol, or the end of the run.
Advances(s, from) ==
  /\ SameRun(s) /\ SameManifest(s)
  /\ \/ Moves(s, from, "activate") /\ ses'[s].idx = ses[s].idx + 1
     \/ Moves(s, from, "finish") /\ ses'[s].idx = ses[s].idx

LEMMA NextSymbolEffect ==
  ASSUME Typed, NEW s \in Sessions, NEW from \in Places, NEW m \in Memory, NextSymbol(s, from, m),
         m.idx = ses[s].idx, m.run = ses[s].run, m.day = ses[s].day, m.late = ses[s].late,
         m.rows = ses[s].rows, m.complete = ses[s].complete, m.manifest = ses[s].manifest,
         m.ended = ses[s].ended
  PROVE  Advances(s, from) /\ ses'[s].completed = m.completed
<1>1. /\ EndOfBody(m) \in Memory /\ EndOfBody(m).idx = m.idx /\ EndOfBody(m).run = m.run
      /\ EndOfBody(m).day = m.day /\ EndOfBody(m).late = m.late /\ EndOfBody(m).rows = m.rows
      /\ EndOfBody(m).complete = m.complete /\ EndOfBody(m).manifest = m.manifest
      /\ EndOfBody(m).completed = m.completed /\ EndOfBody(m).ended = m.ended
  BY EndsAreMemory DEF EndOfBody, Memory
<1>2. /\ DOMAIN Selected[s] = 1..Len(Selected[s]) /\ Len(Selected[s]) \in Nat
      /\ ses[s].idx \in DOMAIN Selected[s] /\ TypeOK
  BY SelectedIsSeq, ItsMemory DEF Typed
<1>3. CASE m.idx = Len(Selected[s])
  <2>1. Go(s, from, "finish", EndOfBody(m))
    BY <1>3 DEF NextSymbol
  <2>2. /\ ses[s].pc = from /\ ses'[s].pc = "finish" /\ ses'[s].idx = m.idx
        /\ \A t \in Sessions : t # s => ses'[t] = ses[t]
    BY <1>1, <1>2, <2>1, PlacesAre, GoEffect
  <2>3. /\ ses'[s].run = m.run /\ ses'[s].day = m.day /\ ses'[s].late = m.late
        /\ ses'[s].rows = m.rows /\ ses'[s].complete = m.complete
        /\ ses'[s].manifest = m.manifest /\ ses'[s].completed = m.completed
        /\ ses'[s].ended = m.ended
    BY <1>1, <1>2, <2>1, PlacesAre, GoFields
  <2> QED BY <2>2, <2>3 DEF Advances, SameRun, SameManifest, Moves, OnlyOf
<1>4. CASE m.idx # Len(Selected[s])
  <2> DEFINE n == [EndOfBody(m) EXCEPT !.idx = @ + 1]
  <2>1. m.idx + 1 \in Nat
    BY <1>2
  <2>2. /\ n \in Memory /\ n.idx = m.idx + 1 /\ n.run = m.run /\ n.day = m.day /\ n.late = m.late
        /\ n.rows = m.rows /\ n.complete = m.complete /\ n.manifest = m.manifest
        /\ n.completed = m.completed /\ n.ended = m.ended
    BY <1>1, <2>1 DEF Memory
  <2>3. Go(s, from, "activate", n)
    BY <1>4 DEF NextSymbol
  <2> HIDE DEF n
  <2>4. /\ ses[s].pc = from /\ ses'[s].pc = "activate" /\ ses'[s].idx = n.idx
        /\ \A t \in Sessions : t # s => ses'[t] = ses[t]
    BY <1>2, <2>2, <2>3, PlacesAre, GoEffect
  <2>5. /\ ses'[s].run = n.run /\ ses'[s].day = n.day /\ ses'[s].late = n.late
        /\ ses'[s].rows = n.rows /\ ses'[s].complete = n.complete
        /\ ses'[s].manifest = n.manifest /\ ses'[s].completed = n.completed
        /\ ses'[s].ended = n.ended
    BY <1>2, <2>2, <2>3, PlacesAre, GoFields
  <2> QED BY <2>2, <2>4, <2>5 DEF Advances, SameRun, SameManifest, Moves, OnlyOf
<1> QED BY <1>3, <1>4

LEMMA BeginEffect ==
  ASSUME Typed, NEW s \in Sessions, Begin(s)
  PROVE  /\ Moves(s, "idle", "activate") /\ SameSymbol(s) /\ SameManifest(s) /\ SameCompleted(s)
         /\ nruns' = nruns + 1 /\ ses'[s].run = nruns' /\ ses'[s].complete = ses[s].complete
         /\ ses'[s].ended = FALSE /\ UNCHANGED <<now, file, tables>>
<1> DEFINE p == IF ses[s].claimed THEN ses[s].manifest ELSE 0
           m == [ses[s] EXCEPT !.run = nruns + 1, !.ended = FALSE, !.previous = p]
<1>1. ses[s] \in Memory /\ TypeOK /\ p \in Runs
  BY ItsMemory, Bounds DEF Typed, Memory
<1>2. nruns' \in Runs /\ nruns' = nruns + 1
  BY SymbolRunsOK DEF Begin, Typed, TypeOK, Runs
<1> HIDE DEF p
<1>3. /\ m \in Memory /\ m.run = nruns' /\ m.idx = ses[s].idx /\ m.gen = ses[s].gen
      /\ m.completed = ses[s].completed /\ m.manifest = ses[s].manifest
      /\ m.complete = ses[s].complete /\ m.ended = FALSE
  BY ZenonT(40), <1>1, <1>2 DEF Memory
<1> USE DEF p
<1>4. Go(s, "idle", "activate", m) /\ UNCHANGED <<now, file, tables>>
  BY DEF Begin
<1> HIDE DEF m
<1>5. /\ Moves(s, "idle", "activate") /\ ses'[s].idx = m.idx /\ ses'[s].gen = m.gen
  BY <1>1, <1>3, <1>4, PlacesAre, GoEffect DEF Moves, OnlyOf
<1>6. /\ ses'[s].run = m.run /\ ses'[s].completed = m.completed /\ ses'[s].manifest = m.manifest
      /\ ses'[s].complete = m.complete /\ ses'[s].ended = m.ended
  BY <1>1, <1>3, <1>4, PlacesAre, GoFields
<1> QED BY <1>2, <1>3, <1>4, <1>5, <1>6 DEF SameSymbol, SameManifest, SameCompleted

KeepsRun(s, m) ==
  /\ m.run = ses[s].run /\ m.day = ses[s].day /\ m.late = ses[s].late
  /\ m.rows = ses[s].rows /\ m.complete = ses[s].complete /\ m.ended = ses[s].ended

LEMMA GoSameRun ==
  ASSUME Typed, NEW s \in Sessions, NEW from \in Places, NEW to \in Places, NEW m \in Memory,
         Go(s, from, to, m), KeepsRun(s, m)
  PROVE  /\ Moves(s, from, to) /\ SameRun(s)
         /\ ses'[s].idx = m.idx /\ ses'[s].gen = m.gen /\ ses'[s].sha = m.sha
         /\ ses'[s].child = m.child /\ ses'[s].valid = m.valid
         /\ ses'[s].completed = m.completed /\ ses'[s].manifest = m.manifest
<1>1. TypeOK
  BY DEF Typed
<1>2. /\ Moves(s, from, to) /\ ses'[s].idx = m.idx /\ ses'[s].gen = m.gen /\ ses'[s].sha = m.sha
  BY <1>1, GoEffect DEF Moves, OnlyOf
<1>3. SameRun(s)
  BY <1>1, GoFields DEF KeepsRun, SameRun
<1>4. /\ ses'[s].child = m.child /\ ses'[s].valid = m.valid
      /\ ses'[s].completed = m.completed /\ ses'[s].manifest = m.manifest
  BY <1>1, GoFields
<1> QED BY <1>2, <1>3, <1>4

LEMMA ActivateEffect ==
  ASSUME Typed, NEW s \in Sessions, Activate(s)
  PROVE  /\ Moves(s, "activate", "calculate") /\ SameRun(s) /\ SameManifest(s) /\ SameCompleted(s)
         /\ ses'[s].idx = ses[s].idx /\ UNCHANGED <<now, nruns, file, tables>>
<1> DEFINE a == Activated(ses[s], Sym(s))
           n == [a EXCEPT !.gen = None, !.symbol = None, !.child = a.run, !.mark = FALSE,
                          !.whole = FALSE]
           m == IF Saved(ses[s], Sym(s)) THEN a ELSE n
<1>1. ses[s] \in Memory /\ Sym(s) \in Symbols /\ TypeOK
  BY ItsMemory DEF Typed
<1>2. a \in Memory /\ a.idx = ses[s].idx
  BY <1>1, ActivatedIsMemory
<1>3. /\ a.run = ses[s].run /\ a.day = ses[s].day /\ a.late = ses[s].late /\ a.rows = ses[s].rows
      /\ a.complete = ses[s].complete /\ a.manifest = ses[s].manifest
      /\ a.completed = ses[s].completed /\ a.ended = ses[s].ended
  BY <1>1 DEF Activated, Memory
<1> HIDE DEF a
<1>4. /\ n \in Memory /\ n.idx = a.idx /\ n.run = a.run /\ n.day = a.day /\ n.late = a.late
      /\ n.rows = a.rows /\ n.complete = a.complete /\ n.manifest = a.manifest
      /\ n.completed = a.completed /\ n.ended = a.ended
  BY <1>2 DEF Memory
<1>5. Go(s, "activate", "calculate", m) /\ UNCHANGED <<now, nruns, file, tables>>
  BY DEF Activate, a
<1>6. /\ m \in Memory /\ m.idx = ses[s].idx /\ KeepsRun(s, m)
      /\ m.manifest = ses[s].manifest /\ m.completed = ses[s].completed
  BY <1>2, <1>3, <1>4 DEF KeepsRun
<1> HIDE DEF m
<1> QED BY <1>5, <1>6, PlacesAre, GoSameRun DEF SameManifest, SameCompleted

LEMMA CalculateEffect ==
  ASSUME Typed, NEW s \in Sessions, Calculate(s)
  PROVE  /\ Moves(s, "calculate", "save") /\ SameRun(s) /\ SameManifest(s) /\ SameCompleted(s)
         /\ ses'[s].idx = ses[s].idx
         /\ UNCHANGED <<now, nruns, file, children, registry, pubs, daily, audit>>
<1> DEFINE g == [run |-> ses[s].run, candle |-> now]
           fresh(ok, whole) == [ses[s] EXCEPT !.gen = g, !.symbol = Sym(s), !.ok = ok, !.whole = whole]
           kept(ok) == [ses[s] EXCEPT !.ok = ok]
<1>1. /\ ses[s] \in Memory /\ Sym(s) \in Symbols /\ ses[s].run \in Runs /\ now \in 0..MaxTime
  BY ItsMemory DEF Typed, TypeOK, Memory
<1>2. PICK m : /\ Go(s, "calculate", "save", m)
               /\ \E ok, whole \in Succeeds(s, "fields") : m = fresh(ok, whole) \/ m = kept(ok)
  BY Zenon DEF Calculate
<1>3. PICK ok \in BOOLEAN, whole \in BOOLEAN : m = fresh(ok, whole) \/ m = kept(ok)
  BY <1>2 DEF Succeeds
<1>4. g \in Generations
  BY <1>1 DEF Generations
<1> HIDE DEF g
<1>5. /\ m \in Memory /\ m.idx = ses[s].idx /\ KeepsRun(s, m)
      /\ m.manifest = ses[s].manifest /\ m.completed = ses[s].completed
  <2>1. CASE m = fresh(ok, whole)
    BY ZenonT(40), <1>1, <1>4, <2>1 DEF KeepsRun, Memory
  <2>2. CASE m = kept(ok)
    BY ZenonT(40), <1>1, <2>2 DEF KeepsRun, Memory
  <2> QED BY <1>3, <2>1, <2>2
<1>6. UNCHANGED <<now, nruns, file, children, registry, pubs, daily, audit>>
  BY DEF Calculate
<1> QED BY <1>2, <1>5, <1>6, PlacesAre, GoSameRun DEF SameManifest, SameCompleted

LEMMA RunnerFailsEffect ==
  ASSUME Typed, NEW s \in Sessions, RunnerFails(s)
  PROVE  /\ Advances(s, "calculate") /\ SameCompleted(s) /\ UNCHANGED <<now, nruns, file, tables>>
<1>1. ses[s] \in Memory
  BY ItsMemory DEF Typed
<1> QED BY <1>1, PlacesAre, NextSymbolEffect DEF RunnerFails, SameCompleted

LEMMA SaveEffect ==
  ASSUME Typed, NEW s \in Sessions, Save(s)
  PROVE  /\ Moves(s, "save", "build") /\ SameRun(s) /\ SameManifest(s) /\ SameCompleted(s)
         /\ SameSymbol(s) /\ ses'[s].child = ses[s].child /\ UNCHANGED <<now, nruns, tables>>
         /\ \A x \in Symbols : x # Sym(s) => file'[x] = file[x]
         /\ \/ file'[Sym(s)] = Payload(ses[s])
            \/ Fault(s, "save") /\ file'[Sym(s)] = file[Sym(s)]
<1>1. ses[s] \in Memory /\ KeepsRun(s, ses[s]) /\ Sym(s) \in Symbols /\ file \in [Symbols -> Payloads \cup {None}]
  BY ItsMemory DEF Typed, TypeOK, KeepsRun
<1>2. Go(s, "save", "build", ses[s]) /\ UNCHANGED <<now, nruns, tables>>
  BY DEF Save
<1>3. /\ \A x \in Symbols : x # Sym(s) => file'[x] = file[x]
      /\ \/ file'[Sym(s)] = Payload(ses[s])
         \/ Fault(s, "save") /\ file'[Sym(s)] = file[Sym(s)]
  BY <1>1 DEF Save, Succeeds
<1>4. /\ Moves(s, "save", "build") /\ SameRun(s) /\ SameManifest(s) /\ SameCompleted(s)
      /\ SameSymbol(s) /\ ses'[s].child = ses[s].child
  BY <1>1, <1>2, PlacesAre, GoSameRun DEF SameManifest, SameCompleted, SameSymbol
<1> QED BY <1>2, <1>3, <1>4

LEMMA BuildEffect ==
  ASSUME Typed, NEW s \in Sessions, Build(s)
  PROVE  /\ Moves(s, "build", "child") \/ Moves(s, "build", "publish")
         /\ SameRun(s) /\ SameManifest(s) /\ SameCompleted(s) /\ SameSymbol(s)
         /\ ses'[s].child = ses[s].child /\ ses'[s].sha = file[Sym(s)]
         /\ UNCHANGED <<now, nruns, file, tables>>
<1> DEFINE m == [ses[s] EXCEPT !.sha = file[Sym(s)]]
           to == IF file[Sym(s)] = None THEN "child" ELSE "publish"
<1>1. ses[s] \in Memory /\ Sym(s) \in Symbols /\ file[Sym(s)] \in Payloads \cup {None}
  BY ItsMemory DEF Typed, TypeOK
<1>2. /\ m \in Memory /\ KeepsRun(s, m) /\ m.idx = ses[s].idx /\ m.gen = ses[s].gen
      /\ m.manifest = ses[s].manifest /\ m.completed = ses[s].completed
      /\ m.child = ses[s].child /\ m.sha = file[Sym(s)]
  BY <1>1 DEF Memory, KeepsRun
<1>3. Go(s, "build", to, m) /\ UNCHANGED <<now, nruns, file, tables>> /\ to \in {"child", "publish"}
  BY DEF Build
<1> HIDE DEF m, to
<1>4. CASE to = "child"
  BY <1>2, <1>3, <1>4, PlacesAre, GoSameRun DEF SameManifest, SameCompleted, SameSymbol
<1>5. CASE to = "publish"
  BY <1>2, <1>3, <1>5, PlacesAre, GoSameRun DEF SameManifest, SameCompleted, SameSymbol
<1> QED BY <1>3, <1>4, <1>5

LEMMA PublishEffect ==
  ASSUME Typed, NEW s \in Sessions, Publish(s)
  PROVE  /\ Moves(s, "publish", "register") \/ Moves(s, "publish", "child")
         /\ SameRun(s) /\ SameManifest(s) /\ SameCompleted(s) /\ SameSymbol(s)
         /\ ses'[s].child = ses[s].child
         /\ \/ UNCHANGED children
            \/ children' = children \cup
                 {[run |-> ses[s].run, symbol |-> Sym(s), gen |-> ses[s].gen, sha |-> ses[s].sha]}
         /\ UNCHANGED <<now, nruns, file, evidence, registry, pubs, daily, audit>>
<1> DEFINE m(v) == [ses[s] EXCEPT !.mark = v]
<1>1. ses[s] \in Memory
  BY ItsMemory DEF Typed
<1>2. \A v \in BOOLEAN :
         /\ m(v) \in Memory /\ KeepsRun(s, m(v)) /\ m(v).idx = ses[s].idx /\ m(v).gen = ses[s].gen
         /\ m(v).manifest = ses[s].manifest /\ m(v).completed = ses[s].completed
         /\ m(v).child = ses[s].child
  BY <1>1 DEF Memory, KeepsRun
<1>3. PICK v \in BOOLEAN, to \in {"register", "child"} : Go(s, "publish", to, m(v))
  BY DEF Publish
<1>4. /\ UNCHANGED <<now, nruns, file, evidence, registry, pubs, daily, audit>>
      /\ \/ UNCHANGED children
         \/ children' = children \cup
              {[run |-> ses[s].run, symbol |-> Sym(s), gen |-> ses[s].gen, sha |-> ses[s].sha]}
  BY DEF Publish
<1> HIDE DEF m
<1>5. /\ Moves(s, "publish", to) /\ SameRun(s) /\ SameManifest(s) /\ SameCompleted(s)
      /\ SameSymbol(s) /\ ses'[s].child = ses[s].child
  BY <1>2, <1>3, PlacesAre, GoSameRun DEF SameManifest, SameCompleted, SameSymbol
<1> QED BY <1>3, <1>4, <1>5

LEMMA RegisterEffect ==
  ASSUME Typed, NEW s \in Sessions, Register(s)
  PROVE  /\ Moves(s, "register", "child")
         /\ SameRun(s) /\ SameManifest(s) /\ SameCompleted(s) /\ SameSymbol(s)
         /\ ses'[s].child = ses[s].child
         /\ registry' = Append(registry, [run |-> ses[s].run, symbol |-> Sym(s), gen |-> ses[s].gen,
                                          sha |-> file[Sym(s)]])
         /\ UNCHANGED <<now, nruns, file, evidence, children, pubs, daily, audit>>
<1>1. ses[s] \in Memory /\ KeepsRun(s, ses[s])
  BY ItsMemory DEF Typed, KeepsRun
<1>2. Go(s, "register", "child", ses[s])
  BY DEF Register
<1>3. /\ Moves(s, "register", "child") /\ SameRun(s) /\ SameManifest(s) /\ SameCompleted(s)
      /\ SameSymbol(s) /\ ses'[s].child = ses[s].child
  BY <1>1, <1>2, PlacesAre, GoSameRun DEF SameManifest, SameCompleted, SameSymbol
<1> QED BY <1>3 DEF Register

LEMMA PublishChildEffect ==
  ASSUME Typed, NEW s \in Sessions, PublishChild(s)
  PROVE  /\ Moves(s, "child", "reload")
         /\ SameRun(s) /\ SameManifest(s) /\ SameCompleted(s) /\ SameSymbol(s)
         /\ ses'[s].child = ses[s].child
         /\ \E status \in {"PENDING_RELOAD", "FAILED_VALIDATION"} :
              pubs' = {p \in pubs : ~SameRow(p, Row(s, status))} \cup {Row(s, status)}
         /\ UNCHANGED <<now, nruns, file, evidence, children, registry, daily, audit>>
<1> DEFINE m(v) == [ses[s] EXCEPT !.valid = v]
           valid == ses[s].whole /\ HasField10(ses[s], Sym(s), ses[s].mark) /\ file[Sym(s)] # None
           status == IF valid THEN "PENDING_RELOAD" ELSE "FAILED_VALIDATION"
<1>1. ses[s] \in Memory
  BY ItsMemory DEF Typed
<1>2. /\ pubs' = {p \in pubs : ~SameRow(p, Row(s, status))} \cup {Row(s, status)}
      /\ Go(s, "child", "reload", m(valid))
      /\ UNCHANGED <<now, nruns, file, evidence, children, registry, daily, audit>>
  BY DEF PublishChild
<1>3. status \in {"PENDING_RELOAD", "FAILED_VALIDATION"}
  OBVIOUS
<1>4. valid \in BOOLEAN
  BY <1>1 DEF Memory
<1> HIDE DEF valid, status
<1>5. /\ m(valid) \in Memory /\ KeepsRun(s, m(valid)) /\ m(valid).idx = ses[s].idx
      /\ m(valid).gen = ses[s].gen /\ m(valid).manifest = ses[s].manifest
      /\ m(valid).completed = ses[s].completed /\ m(valid).child = ses[s].child
  BY <1>1, <1>4 DEF Memory, KeepsRun
<1> HIDE DEF m
<1>6. /\ Moves(s, "child", "reload") /\ SameRun(s) /\ SameManifest(s) /\ SameCompleted(s)
      /\ SameSymbol(s) /\ ses'[s].child = ses[s].child
  BY <1>2, <1>5, PlacesAre, GoSameRun DEF SameManifest, SameCompleted, SameSymbol
<1> QED BY <1>2, <1>3, <1>6

LEMMA ReloadEffect ==
  ASSUME Typed, NEW s \in Sessions, Reload(s)
  PROVE  /\ Advances(s, "reload")
         /\ \/ SameCompleted(s)
            \/ ReloadPasses(Sym(s)) /\ ses'[s].completed = ses[s].completed \cup {Sym(s)}
         /\ \E status \in {"COMPLETED", "FAILED_VALIDATION"} :
              /\ ReloadPasses(Sym(s)) => status = "COMPLETED"
              /\ pubs' = {IF SameRow(p, Row(s, status)) THEN [p EXCEPT !.status = status] ELSE p :
                            p \in pubs}
         /\ UNCHANGED <<now, nruns, file, evidence, children, registry, daily, audit>>
<1> DEFINE c == [ses[s] EXCEPT !.completed = @ \cup {Sym(s)}]
           m == IF Completes(s) THEN c ELSE ses[s]
           status == IF ReloadPasses(Sym(s)) THEN "COMPLETED" ELSE "FAILED_VALIDATION"
<1>1. ses[s] \in Memory /\ Sym(s) \in Symbols
  BY ItsMemory DEF Typed
<1>2. /\ UNCHANGED <<now, nruns, file, evidence, children, registry, daily, audit>>
      /\ pubs' = {IF SameRow(p, Row(s, status)) THEN [p EXCEPT !.status = status] ELSE p : p \in pubs}
      /\ NextSymbol(s, "reload", m)
  BY DEF Reload
<1>3. status \in {"COMPLETED", "FAILED_VALIDATION"} /\ (ReloadPasses(Sym(s)) => status = "COMPLETED")
  OBVIOUS
<1>4. /\ c \in Memory /\ KeepsRun(s, c) /\ c.idx = ses[s].idx /\ c.manifest = ses[s].manifest
      /\ c.completed = ses[s].completed \cup {Sym(s)}
  BY <1>1 DEF Memory, KeepsRun
<1>5. Completes(s) => ReloadPasses(Sym(s))
  BY DEF Completes
<1> HIDE DEF c, status
<1>6. /\ m \in Memory /\ KeepsRun(s, m) /\ m.idx = ses[s].idx /\ m.manifest = ses[s].manifest
      /\ \/ m.completed = ses[s].completed
         \/ ReloadPasses(Sym(s)) /\ m.completed = ses[s].completed \cup {Sym(s)}
  BY <1>1, <1>4, <1>5 DEF KeepsRun
<1> HIDE DEF m
<1>7. Advances(s, "reload") /\ ses'[s].completed = m.completed
  BY <1>2, <1>6, PlacesAre, NextSymbolEffect DEF KeepsRun
<1>8. \/ SameCompleted(s)
      \/ ReloadPasses(Sym(s)) /\ ses'[s].completed = ses[s].completed \cup {Sym(s)}
  BY <1>6, <1>7 DEF SameCompleted
<1> QED BY <1>2, <1>3, <1>7, <1>8

LEMMA FinishEffect ==
  ASSUME Typed, NEW s \in Sessions, Finish(s)
  PROVE  /\ Moves(s, "finish", "show") /\ SameRun(s) /\ SameManifest(s) /\ SameCompleted(s)
         /\ ses'[s].idx = ses[s].idx /\ UNCHANGED <<now, nruns, file, tables>>
<1> DEFINE a(x) == Activated(ses[s], x)
<1>1. ses[s] \in Memory /\ ses[s].completed \subseteq Symbols
  BY ItsMemory DEF Typed, Memory
<1>2. Selected[s][1] \in Symbols
  BY SelectedIsSeq
<1>3. PICK x \in Symbols : Go(s, "finish", "show", a(x))
  BY <1>1, <1>2 DEF Finish
<1>4. a(x) \in Memory /\ a(x).idx = ses[s].idx
  BY <1>1, ActivatedIsMemory DEF Typed
<1>5. /\ KeepsRun(s, a(x)) /\ a(x).completed = ses[s].completed
      /\ a(x).manifest = ses[s].manifest
  BY <1>1 DEF Activated, Memory, KeepsRun
<1>6. UNCHANGED <<now, nruns, file, tables>>
  BY DEF Finish
<1> HIDE DEF a
<1> QED BY <1>3, <1>4, <1>5, <1>6, PlacesAre, GoSameRun DEF SameCompleted, SameManifest

LEMMA ShowRunEffect ==
  ASSUME Typed, NEW s \in Sessions, ShowRun(s)
  PROVE  /\ Moves(s, "show", "look") /\ SameRun(s) /\ SameCompleted(s)
         /\ ses'[s].manifest = ses[s].run /\ ses'[s].idx = ses[s].idx
         /\ UNCHANGED <<now, nruns, file, tables>>
<1> DEFINE v == Summary(ses[s].run)
           c == AllCompleted(s)
           m == [ses[s] EXCEPT !.view = v, !.manifest = ses[s].run, !.claimed = c]
<1>1. ses[s] \in Memory /\ ses[s].run \in Runs
  BY ItsMemory DEF Typed, Memory
<1>2. v \in Views /\ c \in BOOLEAN
  BY DEF Summary, Views, AllCompleted
<1>3. Go(s, "show", "look", m) /\ UNCHANGED <<now, nruns, file, tables>>
  BY DEF ShowRun
<1> HIDE DEF v, c
<1>4. /\ m \in Memory /\ KeepsRun(s, m) /\ m.idx = ses[s].idx
      /\ m.completed = ses[s].completed /\ m.manifest = ses[s].run
  BY <1>1, <1>2 DEF Memory, KeepsRun
<1> HIDE DEF m
<1> QED BY <1>3, <1>4, PlacesAre, GoSameRun DEF SameCompleted

LEMMA DailyLookEffect ==
  ASSUME Typed, NEW s \in Sessions, DailyLook(s)
  PROVE  /\ \/ /\ Moves(s, "look", "second") /\ AllCompleted(s)
               /\ ses'[s].day \in 0..Day(MaxTime)
               /\ ses'[s].rows = {[symbol |-> x, payload |-> file[x],
                                   eligible |-> Eligible(s, x, ses'[s].day)] : x \in Mine(s)}
            \/ Moves(s, "look", "complete")
         /\ ses'[s].run = ses[s].run /\ ses'[s].complete = ses[s].complete
         /\ ses'[s].ended = ses[s].ended /\ SameManifest(s)
         /\ SameCompleted(s) /\ ses'[s].idx = ses[s].idx /\ UNCHANGED <<now, nruns, file, tables>>
<1> DEFINE rows(d) == {[symbol |-> x, payload |-> file[x], eligible |-> Eligible(s, x, d)] :
                         x \in Mine(s)}
           n(d, late) == [ses[s] EXCEPT !.day = d, !.late = late, !.rows = rows(d)]
<1>1. ses[s] \in Memory /\ UNCHANGED <<now, nruns, file, tables>> /\ TypeOK
  BY ItsMemory, LookCases DEF Typed
<1>2. CASE Go(s, "look", "complete", ses[s])
  <2>1. KeepsRun(s, ses[s])
    BY DEF KeepsRun
  <2>2. /\ Moves(s, "look", "complete") /\ SameRun(s) /\ SameCompleted(s) /\ SameManifest(s)
        /\ ses'[s].idx = ses[s].idx
    BY <1>1, <1>2, <2>1, PlacesAre, GoSameRun DEF SameCompleted, SameManifest
  <2> QED BY <1>1, <2>2 DEF SameRun
<1>3. ASSUME NEW d \in 0..Day(MaxTime), NEW late \in BOOLEAN, Go(s, "look", "second", n(d, late)),
             AllCompleted(s)
      PROVE  /\ Moves(s, "look", "second") /\ ses'[s].idx = ses[s].idx
             /\ ses'[s].day \in 0..Day(MaxTime) /\ ses'[s].rows = rows(ses'[s].day)
             /\ ses'[s].run = ses[s].run /\ ses'[s].complete = ses[s].complete
             /\ ses'[s].ended = ses[s].ended /\ SameManifest(s) /\ SameCompleted(s)
  <2>1. rows(d) \subseteq Candidate
    BY <1>1, CandidateTypes
  <2> HIDE DEF rows
  <2>2. /\ n(d, late) \in Memory /\ n(d, late).idx = ses[s].idx /\ n(d, late).run = ses[s].run
        /\ n(d, late).complete = ses[s].complete /\ n(d, late).completed = ses[s].completed
        /\ n(d, late).day = d /\ n(d, late).rows = rows(d) /\ n(d, late).ended = ses[s].ended
        /\ n(d, late).manifest = ses[s].manifest
    BY <1>1, <2>1 DEF Memory
  <2> HIDE DEF n
  <2>3. Moves(s, "look", "second") /\ ses'[s].idx = n(d, late).idx
    BY <1>1, <1>3, <2>2, PlacesAre, GoEffect DEF Moves, OnlyOf
  <2>4. /\ ses'[s].run = n(d, late).run /\ ses'[s].complete = n(d, late).complete
        /\ ses'[s].completed = n(d, late).completed /\ ses'[s].day = n(d, late).day
        /\ ses'[s].rows = n(d, late).rows /\ ses'[s].ended = n(d, late).ended
        /\ ses'[s].manifest = n(d, late).manifest
    BY <1>1, <1>3, <2>2, PlacesAre, GoFields
  <2>5. ses'[s].day = d /\ ses'[s].rows = rows(d)
    BY <2>2, <2>4
  <2>6. ses'[s].rows = rows(ses'[s].day)
    BY <2>5, Zenon
  <2> QED BY <2>2, <2>3, <2>4, <2>5, <2>6 DEF SameCompleted, SameManifest
<1>4. CASE \E d \in 0..Day(MaxTime), late \in BOOLEAN :
             AllCompleted(s) /\ Go(s, "look", "second", n(d, late))
  <2>1. ses'[s].rows = rows(ses'[s].day)
    BY <1>3, <1>4
  <2> HIDE DEF n
  <2> QED BY <1>1, <1>3, <1>4, <2>1
<1> QED BY <1>2, <1>4, LookCases

LEMMA DailySecondEffect ==
  ASSUME Typed, NEW s \in Sessions, DailySecond(s)
  PROVE  /\ Moves(s, "second", "insert") \/ Moves(s, "second", "complete")
         /\ SameRun(s) /\ SameManifest(s) /\ SameCompleted(s)
         /\ ses'[s].idx = ses[s].idx /\ UNCHANGED <<now, nruns, file, tables>>
<1> DEFINE to == IF daily[ses[s].day] = None /\ ses[s].late THEN "insert" ELSE "complete"
<1>1. ses[s] \in Memory /\ KeepsRun(s, ses[s])
  BY ItsMemory DEF Typed, KeepsRun
<1>2. /\ Go(s, "second", to, ses[s]) /\ UNCHANGED <<now, nruns, file, tables>>
      /\ to \in {"insert", "complete"}
  BY DEF DailySecond
<1> HIDE DEF to
<1>3. CASE to = "insert"
  BY <1>1, <1>2, <1>3, PlacesAre, GoSameRun DEF SameCompleted, SameManifest
<1>4. CASE to = "complete"
  BY <1>1, <1>2, <1>4, PlacesAre, GoSameRun DEF SameCompleted, SameManifest
<1> QED BY <1>2, <1>3, <1>4

LEMMA DailyInsertEffect ==
  ASSUME Typed, NEW s \in Sessions, DailyInsert(s)
  PROVE  /\ Moves(s, "insert", "complete") /\ SameRun(s) /\ SameManifest(s) /\ SameCompleted(s)
         /\ ses'[s].idx = ses[s].idx /\ ses[s].day \in DOMAIN daily /\ DOMAIN daily' = DOMAIN daily
         /\ \A d \in DOMAIN daily : daily'[d] # daily[d] =>
              d = ses[s].day /\ daily[d] = None /\ daily'[d] = Snapshot(s)
         /\ UNCHANGED <<now, nruns, file, evidence, children, registry, pubs, audit>>
<1>1. /\ ses[s] \in Memory /\ KeepsRun(s, ses[s]) /\ ses[s].day \in 0..Day(MaxTime)
      /\ daily \in [0..Day(MaxTime) -> [run : Runs, rows : SUBSET Candidate] \cup {None}]
  BY ItsMemory DEF Typed, TypeOK, KeepsRun, Memory
<1>2. /\ Go(s, "insert", "complete", ses[s])
      /\ daily' = [daily EXCEPT ![ses[s].day] = IF @ = None THEN Snapshot(s) ELSE @]
      /\ UNCHANGED <<now, nruns, file, evidence, children, registry, pubs, audit>>
  BY DEF DailyInsert
<1>3. /\ ses[s].day \in DOMAIN daily /\ DOMAIN daily' = DOMAIN daily
      /\ \A d \in DOMAIN daily : daily'[d] # daily[d] =>
           d = ses[s].day /\ daily[d] = None /\ daily'[d] = Snapshot(s)
  <2> DEFINE D == 0..Day(MaxTime)
             e == ses[s].day
             new == IF daily[e] = None THEN Snapshot(s) ELSE daily[e]
  <2>1. DOMAIN daily = D /\ e \in D
    BY <1>1
  <2>2. daily' = [daily EXCEPT ![e] = new]
    BY <1>2
  <2> HIDE DEF D, e, new
  <2>3. DOMAIN daily' = D /\ daily'[e] = new /\ \A d \in D : d # e => daily'[d] = daily[d]
    BY <1>1, <2>1, <2>2 DEF D
  <2>4. daily[e] = None => daily'[e] = Snapshot(s)
    BY <2>3 DEF new
  <2>5. daily[e] # None => daily'[e] = daily[e]
    BY <2>3 DEF new
  <2>6. \A d \in DOMAIN daily : daily'[d] # daily[d] => d = e /\ daily[d] = None /\ daily'[d] = Snapshot(s)
    BY <2>1, <2>3, <2>4, <2>5
  <2> QED BY <2>1, <2>3, <2>6 DEF e
<1>4. /\ Moves(s, "insert", "complete") /\ SameRun(s) /\ SameManifest(s) /\ SameCompleted(s)
      /\ ses'[s].idx = ses[s].idx
  BY <1>1, <1>2, PlacesAre, GoSameRun DEF SameCompleted, SameManifest
<1> QED BY <1>2, <1>3, <1>4

LEMMA CompleteEffect ==
  ASSUME Typed, NEW s \in Sessions, Complete(s)
  PROVE  /\ SameRun(s) /\ SameManifest(s) /\ SameCompleted(s) /\ ses'[s].idx = ses[s].idx
         /\ \/ /\ Moves(s, "complete", "strict") /\ ses[s].completed = Mine(s)
               /\ audit' = audit \cup {ses[s].run}
            \/ Moves(s, "complete", "partial") /\ UNCHANGED audit
         /\ UNCHANGED <<now, nruns, file, evidence, children, registry, pubs, daily>>
<1> DEFINE v == Summary(ses[s].run)
           m == [ses[s] EXCEPT !.view = v]
<1>1. ses[s] \in Memory
  BY ItsMemory DEF Typed
<1>2. v \in Views
  BY DEF Summary, Views
<1>3. /\ UNCHANGED <<now, nruns, file, evidence, children, registry, pubs, daily>>
      /\ \/ /\ Go(s, "complete", "strict", m) /\ ses[s].completed = Mine(s)
            /\ audit' = audit \cup {ses[s].run}
         \/ Go(s, "complete", "partial", m) /\ UNCHANGED audit
  BY DEF Complete, AllCompleted
<1> HIDE DEF v
<1>4. /\ m \in Memory /\ KeepsRun(s, m) /\ m.idx = ses[s].idx
      /\ m.completed = ses[s].completed /\ m.manifest = ses[s].manifest
  BY <1>1, <1>2 DEF Memory, KeepsRun
<1> HIDE DEF m
<1>5. CASE /\ Go(s, "complete", "strict", m) /\ ses[s].completed = Mine(s)
           /\ audit' = audit \cup {ses[s].run}
  BY <1>3, <1>4, <1>5, PlacesAre, GoSameRun DEF SameCompleted, SameManifest
<1>6. CASE Go(s, "complete", "partial", m) /\ UNCHANGED audit
  BY <1>3, <1>4, <1>6, PlacesAre, GoSameRun DEF SameCompleted, SameManifest
<1> QED BY <1>3, <1>5, <1>6

LEMMA StrictEffect ==
  ASSUME Typed, NEW s \in Sessions, Strict(s)
  PROVE  /\ Moves(s, "strict", "end") /\ SameManifest(s) /\ SameCompleted(s)
         /\ ses'[s].complete = ses[s].run /\ ses'[s].run = ses[s].run
         /\ ses'[s].ended = ses[s].ended /\ ses'[s].idx = ses[s].idx
         /\ UNCHANGED <<now, nruns, file, tables>>
<1> DEFINE m == [ses[s] EXCEPT !.complete = ses[s].run]
<1>1. ses[s] \in Memory /\ TypeOK
  BY ItsMemory DEF Typed
<1>2. Go(s, "strict", "end", m) /\ UNCHANGED <<now, nruns, file, tables>>
  BY DEF Strict
<1>3. /\ m \in Memory /\ m.idx = ses[s].idx /\ m.run = ses[s].run /\ m.complete = ses[s].run
      /\ m.ended = ses[s].ended /\ m.manifest = ses[s].manifest
      /\ m.completed = ses[s].completed
  BY <1>1 DEF Memory
<1> HIDE DEF m
<1>4. Moves(s, "strict", "end") /\ ses'[s].idx = ses[s].idx
  BY <1>1, <1>2, <1>3, PlacesAre, GoEffect DEF Moves, OnlyOf
<1>5. /\ SameManifest(s) /\ SameCompleted(s) /\ ses'[s].complete = ses[s].run
      /\ ses'[s].run = ses[s].run /\ ses'[s].ended = ses[s].ended
  BY <1>1, <1>2, <1>3, PlacesAre, GoFields DEF SameManifest, SameCompleted
<1> QED BY <1>2, <1>4, <1>5

LEMMA PartialEffect ==
  ASSUME Typed, NEW s \in Sessions, Partial(s)
  PROVE  /\ Moves(s, "partial", "end") /\ SameRun(s) /\ SameCompleted(s)
         /\ ses[s].complete # 0 => ses'[s].manifest = ses[s].complete
         /\ ses'[s].idx = ses[s].idx /\ UNCHANGED <<now, nruns, file, tables>>
<1> DEFINE m == KeepComplete(ses[s])
<1>1. ses[s] \in Memory
  BY ItsMemory DEF Typed
<1>2. Go(s, "partial", "end", m) /\ UNCHANGED <<now, nruns, file, tables>>
  BY DEF Partial
<1>3. m \in Memory /\ m.idx = ses[s].idx
  BY <1>1, KeepCompleteIsMemory
<1>4. /\ KeepsRun(s, m) /\ m.completed = ses[s].completed
      /\ ses[s].complete # 0 => m.manifest = ses[s].complete
  BY <1>1 DEF KeepComplete, KeepsRun, Memory
<1> HIDE DEF m
<1> QED BY <1>2, <1>3, <1>4, PlacesAre, GoSameRun DEF SameCompleted

LEMMA EndEffect ==
  ASSUME Typed, NEW s \in Sessions, End(s)
  PROVE  /\ Moves(s, "end", "idle") /\ SameManifest(s)
         /\ ses'[s].run = ses[s].run /\ ses'[s].complete = ses[s].complete
         /\ ses'[s].idx = 1 /\ ses'[s].completed = {} /\ UNCHANGED <<now, nruns, file, tables>>
<1> DEFINE e == EndOfRun(ses[s])
           m == [e EXCEPT !.ended = TRUE]
<1>1. ses[s] \in Memory /\ TypeOK
  BY ItsMemory DEF Typed
<1>2. /\ e \in Memory /\ e.idx = 1 /\ e.run = ses[s].run /\ e.completed = {}
      /\ e.complete = ses[s].complete /\ e.manifest = ses[s].manifest
  BY <1>1, EndsAreMemory DEF EndOfRun, Memory
<1>3. Go(s, "end", "idle", m) /\ UNCHANGED <<now, nruns, file, tables>>
  BY DEF End
<1> HIDE DEF e
<1>4. /\ m \in Memory /\ m.idx = 1 /\ m.run = ses[s].run /\ m.completed = {}
      /\ m.complete = ses[s].complete /\ m.manifest = ses[s].manifest
  BY <1>2 DEF Memory
<1> HIDE DEF m
<1>5. Moves(s, "end", "idle") /\ ses'[s].idx = 1
  BY <1>1, <1>3, <1>4, PlacesAre, GoEffect DEF Moves, OnlyOf
<1>6. /\ SameManifest(s) /\ ses'[s].completed = {} /\ ses'[s].complete = ses[s].complete
      /\ ses'[s].run = ses[s].run
  BY <1>1, <1>3, <1>4, PlacesAre, GoFields DEF SameManifest
<1> QED BY <1>3, <1>5, <1>6

LEMMA ViewEffect ==
  ASSUME Typed, NEW s \in Sessions, View(s)
  PROVE  /\ Moves(s, "idle", "idle") /\ SameRun(s) /\ SameManifest(s) /\ SameCompleted(s)
         /\ SameSymbol(s) /\ UNCHANGED <<now, nruns, file, tables>>
<1> DEFINE m(run) == [ses[s] EXCEPT !.view = Summary(run)]
<1>1. ses[s] \in Memory
  BY ItsMemory DEF Typed
<1>2. PICK run : Go(s, "idle", "idle", m(run))
  BY DEF View
<1>3. Summary(run) \in Views
  BY DEF Summary, Views
<1>4. /\ m(run) \in Memory /\ KeepsRun(s, m(run)) /\ m(run).idx = ses[s].idx
      /\ m(run).gen = ses[s].gen /\ m(run).manifest = ses[s].manifest
      /\ m(run).completed = ses[s].completed
  BY <1>1, <1>3 DEF Memory, KeepsRun
<1>5. UNCHANGED <<now, nruns, file, tables>>
  BY DEF View
<1> HIDE DEF m
<1> QED BY <1>2, <1>4, <1>5, PlacesAre, GoSameRun DEF SameManifest, SameCompleted, SameSymbol

LEMMA InterruptEffect ==
  ASSUME Typed, NEW s \in Sessions, Interrupt(s)
  PROVE  /\ ses[s].pc # "idle" /\ Moves(s, ses[s].pc, "idle") /\ ses'[s].run = ses[s].run
         /\ ses'[s].complete = ses[s].complete /\ SameManifest(s) /\ ses'[s].ended = ses[s].ended
         /\ ses'[s].idx = 1 /\ ses'[s].completed = {} /\ UNCHANGED <<now, nruns, file, tables>>
<1> DEFINE e == EndOfRun(EndOfBody(ses[s]))
           m(child) == [e EXCEPT !.child = child]
<1>1. /\ ses[s] \in Memory /\ ses[s].pc \in Places /\ ses[s].child \in Runs /\ TypeOK
      /\ e \in Memory /\ e.idx = 1
  BY ItsMemory, EndsAreMemory DEF Typed, Memory
<1>2. /\ e.run = ses[s].run /\ e.complete = ses[s].complete /\ e.manifest = ses[s].manifest
      /\ e.completed = {} /\ e.ended = ses[s].ended
  BY <1>1 DEF EndOfRun, EndOfBody, Memory
<1>3. PICK child \in {ses[s].child, 0} : Go(s, ses[s].pc, "idle", m(child))
  BY DEF Interrupt
<1>4. UNCHANGED <<now, nruns, file, tables>> /\ ses[s].pc # "idle"
  BY DEF Interrupt
<1> HIDE DEF e
<1>5. /\ m(child) \in Memory /\ m(child).idx = 1 /\ m(child).run = ses[s].run
      /\ m(child).complete = ses[s].complete /\ m(child).manifest = ses[s].manifest
      /\ m(child).completed = {} /\ m(child).ended = ses[s].ended
  BY <1>1, <1>2, Bounds DEF Memory
<1> HIDE DEF m
<1>6. Moves(s, ses[s].pc, "idle") /\ ses'[s].idx = 1
  BY <1>1, <1>3, <1>5, PlacesAre, GoEffect DEF Moves, OnlyOf
<1>7. /\ ses'[s].run = ses[s].run /\ ses'[s].complete = ses[s].complete /\ SameManifest(s)
      /\ ses'[s].completed = {} /\ ses'[s].ended = ses[s].ended
  BY <1>1, <1>3, <1>5, PlacesAre, GoFields DEF SameManifest
<1> QED BY <1>4, <1>6, <1>7

-----------------------------------------------------------------------------
(* The latest complete run and the snapshot of the day                     *)

Shown == {"look", "second", "insert", "complete", "strict", "partial"}

\* The runs of a session are numbered in order, and the audit has the one that is
\* about to be its latest complete one. From the manifest of the run to the verdict on
\* it the manifest shown is the run's own, and after the verdict the latest complete
\* one; a run that is cut off in between has no final status.
KeptBy(s) ==
  /\ ses[s].complete <= nruns
  /\ ses[s].pc # "idle" =>
       ~ses[s].ended /\ ses[s].complete <= ses[s].run /\ ses[s].run <= nruns
  /\ ses[s].complete # 0 =>
       /\ ses[s].complete \in audit /\ ses[s].complete <= ses[s].manifest
       /\ ses[s].ended => ses[s].manifest = ses[s].complete
  /\ ses[s].pc \in Shown => ses[s].manifest = ses[s].run
  /\ ses[s].pc = "strict" => ses[s].run \in audit
  /\ ses[s].pc = "end" /\ ses[s].complete # 0 => ses[s].manifest = ses[s].complete
Kept == \A s \in Sessions : KeptBy(s)

LEMMA RunNumbers ==
  ASSUME TypeOK, NEW s \in Sessions
  PROVE  /\ nruns \in Nat /\ ses[s].run \in Nat /\ ses[s].complete \in Nat
         /\ ses[s].manifest \in Nat
<1>1. Runs \subseteq Nat /\ nruns \in Runs
  BY SymbolRunsOK DEF Runs, TypeOK
<1>2. ses[s].run \in Runs /\ ses[s].complete \in Runs /\ ses[s].manifest \in Runs
  BY DEF TypeOK, Memory
<1> QED BY <1>1, <1>2

LEMMA UpTo ==
  ASSUME NEW i \in Nat, NEW n \in Nat, NEW m, i <= n, m = n \/ m = n + 1
  PROVE  i <= m
  OBVIOUS

LEMMA KeptStep ==
  ASSUME Typed, Kept, NEW s \in Sessions, OnlyOf(s), audit \subseteq audit',
         nruns' = nruns \/ nruns' = nruns + 1, KeptBy(s)'
  PROVE  Kept'
<1> SUFFICES ASSUME NEW t \in Sessions, t # s PROVE KeptBy(t)'
  BY DEF Kept
<1>1. ses'[t] = ses[t] /\ KeptBy(t) /\ TypeOK
  BY DEF OnlyOf, Kept, Typed
<1>2. /\ nruns \in Nat /\ ses[t].run \in Nat /\ ses[t].complete \in Nat
  BY <1>1, RunNumbers
<1>3. /\ ses[t].complete <= nruns => ses[t].complete <= nruns'
      /\ ses[t].run <= nruns => ses[t].run <= nruns'
  BY <1>2, UpTo
<1> QED BY <1>1, <1>3 DEF KeptBy

\* A step that leaves the manifest, the verdict and the run of its session alone.
LEMMA KeptStays ==
  ASSUME Typed, Kept, NEW s \in Sessions, OnlyOf(s), UNCHANGED <<audit, nruns>>,
         ses'[s].run = ses[s].run, ses'[s].complete = ses[s].complete,
         ses'[s].ended = ses[s].ended, SameManifest(s),
         ses'[s].pc \notin {"strict", "end"}, ses'[s].pc # "idle" => ses[s].pc # "idle",
         ses'[s].pc \in Shown => ses[s].pc \in Shown
  PROVE  Kept'
<1>1. KeptBy(s)
  BY DEF Kept
<1>2. KeptBy(s)'
  BY <1>1 DEF KeptBy, SameManifest
<1> QED BY <1>2, KeptStep

LEMMA BeginKept == ASSUME Typed, Kept, NEW s \in Sessions, Begin(s) PROVE Kept'
<1>1. /\ KeptBy(s) /\ nruns \in Nat /\ ses[s].complete \in Nat
  BY RunNumbers DEF Kept, Typed
<1>2. /\ OnlyOf(s) /\ ses'[s].pc = "activate" /\ SameManifest(s) /\ UNCHANGED audit
      /\ nruns' = nruns + 1 /\ ses'[s].run = nruns' /\ ses'[s].complete = ses[s].complete
      /\ ses'[s].ended = FALSE
  BY BeginEffect DEF Moves, tables
<1>3. ses[s].complete <= nruns' /\ nruns' <= nruns'
  BY <1>1, <1>2, UpTo DEF KeptBy
<1>4. KeptBy(s)'
  BY <1>1, <1>2, <1>3 DEF KeptBy, SameManifest, Shown
<1> QED BY <1>2, <1>4, KeptStep

LEMMA VerdictKept ==
  ASSUME Typed, Kept, NEW s \in Sessions,
         ShowRun(s) \/ Complete(s) \/ Strict(s) \/ Partial(s) \/ End(s)
  PROVE  Kept'
<1>1. /\ KeptBy(s) /\ nruns \in Nat /\ ses[s].complete \in Nat /\ ses[s].run \in Nat
  BY RunNumbers DEF Kept, Typed
<1>2. CASE ShowRun(s)
  <2>1. /\ OnlyOf(s) /\ ses[s].pc = "show" /\ ses'[s].pc = "look" /\ SameRun(s)
        /\ ses'[s].manifest = ses[s].run /\ UNCHANGED <<audit, nruns>>
    BY <1>2, ShowRunEffect DEF Moves, tables
  <2>2. KeptBy(s)'
    BY <1>1, <2>1 DEF KeptBy, SameRun
  <2> QED BY <2>1, <2>2, KeptStep
<1>3. CASE Complete(s)
  <2>1. /\ OnlyOf(s) /\ SameRun(s) /\ SameManifest(s) /\ UNCHANGED nruns /\ ses[s].pc = "complete"
        /\ \/ ses'[s].pc = "strict" /\ audit' = audit \cup {ses[s].run}
           \/ ses'[s].pc = "partial" /\ UNCHANGED audit
    BY <1>3, CompleteEffect DEF Moves
  <2>2. KeptBy(s)'
    BY <1>1, <2>1 DEF KeptBy, SameRun, SameManifest, Shown
  <2>3. audit \subseteq audit'
    BY <2>1
  <2> QED BY <2>1, <2>2, <2>3, KeptStep
<1>4. CASE Strict(s)
  <2>1. /\ OnlyOf(s) /\ ses[s].pc = "strict" /\ ses'[s].pc = "end" /\ SameManifest(s)
        /\ ses'[s].complete = ses[s].run /\ ses'[s].run = ses[s].run
        /\ ses'[s].ended = ses[s].ended /\ UNCHANGED <<audit, nruns>>
    BY <1>4, StrictEffect DEF Moves, tables
  <2>2. ses[s].run <= ses[s].run
    BY <1>1
  <2>3. KeptBy(s)'
    BY <1>1, <2>1, <2>2 DEF KeptBy, SameManifest, Shown
  <2> QED BY <2>1, <2>3, KeptStep
<1>5. CASE Partial(s)
  <2>1. /\ OnlyOf(s) /\ ses[s].pc = "partial" /\ ses'[s].pc = "end" /\ SameRun(s)
        /\ ses[s].complete # 0 => ses'[s].manifest = ses[s].complete
        /\ UNCHANGED <<audit, nruns>>
    BY <1>5, PartialEffect DEF Moves, tables
  <2>2. ses[s].complete <= ses[s].complete
    BY <1>1
  <2>3. KeptBy(s)'
    BY <1>1, <2>1, <2>2 DEF KeptBy, SameRun, Shown
  <2> QED BY <2>1, <2>3, KeptStep
<1>6. CASE End(s)
  <2>1. /\ OnlyOf(s) /\ ses[s].pc = "end" /\ ses'[s].pc = "idle" /\ SameManifest(s)
        /\ ses'[s].complete = ses[s].complete /\ UNCHANGED <<audit, nruns>>
    BY <1>6, EndEffect DEF Moves, tables
  <2>2. KeptBy(s)'
    BY <1>1, <2>1 DEF KeptBy, SameManifest, Shown
  <2> QED BY <2>1, <2>2, KeptStep
<1> QED BY <1>2, <1>3, <1>4, <1>5, <1>6

LEMMA NextKept == Typed /\ Kept /\ [Next]_vars => Kept'
<1> SUFFICES ASSUME Typed, Kept, [Next]_vars PROVE Kept'
  OBVIOUS
<1>1. CASE UNCHANGED vars \/ Tick
  BY <1>1 DEF vars, Tick, tables, Kept, KeptBy
<1>2. ASSUME NEW s \in Sessions, Begin(s) PROVE Kept'
  BY <1>2, BeginKept
<1>3. ASSUME NEW s \in Sessions,
             ShowRun(s) \/ Complete(s) \/ Strict(s) \/ Partial(s) \/ End(s)
      PROVE  Kept'
  BY <1>3, VerdictKept
<1>4. ASSUME NEW s \in Sessions,
             \/ Activate(s) \/ Calculate(s) \/ Save(s) \/ Build(s) \/ Publish(s)
             \/ Register(s) \/ PublishChild(s)
      PROVE  Kept'
  <2>1. /\ OnlyOf(s) /\ SameRun(s) /\ SameManifest(s) /\ UNCHANGED <<audit, nruns>>
        /\ ses[s].pc # "idle" /\ ses'[s].pc \notin Shown \cup {"end"}
    <3>1. CASE Activate(s) \/ Calculate(s) \/ Save(s)
      BY <3>1, ActivateEffect, CalculateEffect, SaveEffect DEF Moves, tables, Shown
    <3>2. CASE Build(s) \/ Publish(s)
      BY <3>2, BuildEffect, PublishEffect DEF Moves, tables, Shown
    <3>3. CASE Register(s) \/ PublishChild(s)
      BY <3>3, RegisterEffect, PublishChildEffect DEF Moves, tables, Shown
    <3> QED BY <1>4, <3>1, <3>2, <3>3
  <2> QED BY <2>1, KeptStays DEF SameRun, Shown
<1>5. ASSUME NEW s \in Sessions, RunnerFails(s) \/ Reload(s) \/ Finish(s) PROVE Kept'
  <2>1. /\ OnlyOf(s) /\ SameRun(s) /\ SameManifest(s) /\ UNCHANGED <<audit, nruns>>
        /\ ses[s].pc # "idle" /\ ses'[s].pc \notin Shown \cup {"end"}
    BY <1>5, RunnerFailsEffect, ReloadEffect, FinishEffect DEF Advances, Moves, tables, Shown
  <2> QED BY <2>1, KeptStays DEF SameRun, Shown
<1>6. ASSUME NEW s \in Sessions, DailyLook(s) \/ DailySecond(s) \/ DailyInsert(s) PROVE Kept'
  <2>1. /\ OnlyOf(s) /\ SameManifest(s) /\ UNCHANGED <<audit, nruns>>
        /\ ses'[s].run = ses[s].run /\ ses'[s].complete = ses[s].complete
        /\ ses'[s].ended = ses[s].ended
        /\ ses[s].pc \in Shown /\ ses'[s].pc \in {"second", "insert", "complete"}
    BY <1>6, DailyLookEffect, DailySecondEffect, DailyInsertEffect
       DEF Moves, SameRun, tables, Shown
  <2> QED BY <2>1, KeptStays DEF Shown
<1>7. ASSUME NEW s \in Sessions, View(s) \/ Interrupt(s) PROVE Kept'
  <2>1. /\ OnlyOf(s) /\ SameManifest(s) /\ UNCHANGED <<audit, nruns>>
        /\ ses'[s].run = ses[s].run /\ ses'[s].complete = ses[s].complete
        /\ ses'[s].ended = ses[s].ended /\ ses'[s].pc = "idle"
    BY <1>7, ViewEffect, InterruptEffect DEF Moves, SameRun, tables
  <2> QED BY <2>1, KeptStays DEF Shown
<1>8. ASSUME NEW s \in Sessions, Restart(s) PROVE Kept'
  <2>1. /\ OnlyOf(s) /\ ses'[s].complete = 0 /\ ses'[s].pc = "idle"
        /\ UNCHANGED <<audit, nruns>>
    BY <1>8, RestartEffect DEF Typed, OnlyOf, tables
  <2>2. 0 <= nruns
    BY RunNumbers DEF Typed
  <2>3. KeptBy(s)'
    BY <2>1, <2>2 DEF KeptBy, Shown
  <2> QED BY <2>1, <2>3, KeptStep
<1> QED BY <1>1, <1>2, <1>3, <1>4, <1>5, <1>6, <1>7, <1>8 DEF Next

\* The latest complete run of a session is one the audit has; wherever an interruption
\* cuts a run off, the session shows that run or a later one, and the very run when the
\* last it began came to its end.
THEOREM LastCompleteHolds == Spec => []LastCompleteIsKept
<1>1. Init => Kept
  <2>1. Fresh.complete = 0 /\ Fresh.pc = "idle"
    BY DEF Fresh
  <2> QED BY <2>1 DEF Init, Kept, KeptBy, Shown
<1>2. Kept => LastCompleteIsKept
  BY DEF Kept, KeptBy, LastCompleteIsKept
<1> QED BY <1>1, <1>2, NextKept, AlwaysTyped, PTL DEF Spec

\* The snapshot of a day, once there, never changes.
THEOREM DailyHolds == Spec => DailyIsFinal
<1> DEFINE Final == \A d \in DOMAIN daily : daily[d] # None => daily'[d] = daily[d]
<1>1. Typed /\ [Next]_vars => [Final]_vars
  <2> SUFFICES ASSUME Typed, [Next]_vars PROVE Final
    OBVIOUS
  <2>1. CASE UNCHANGED daily
    BY <2>1
  <2>2. ASSUME NEW s \in Sessions, DailyInsert(s) PROVE Final
    BY <2>2, DailyInsertEffect
  <2>3. ASSUME NEW s \in Sessions,
               \/ Begin(s) \/ Activate(s) \/ Calculate(s) \/ RunnerFails(s) \/ Save(s) \/ Build(s)
               \/ Publish(s) \/ Register(s) \/ PublishChild(s) \/ Reload(s) \/ Finish(s)
               \/ ShowRun(s) \/ DailyLook(s) \/ DailySecond(s) \/ Complete(s) \/ Strict(s)
               \/ Partial(s) \/ End(s) \/ View(s) \/ Interrupt(s) \/ Restart(s)
        PROVE  UNCHANGED daily
    BY <2>3 DEF Begin, Activate, Calculate, RunnerFails, Save, Build, Publish, Register,
       PublishChild, Reload, Finish, ShowRun, DailyLook, DailySecond, Complete, Strict, Partial,
       End, View, Interrupt, Restart, tables
  <2>4. CASE UNCHANGED vars \/ Tick
    BY <2>1, <2>4 DEF vars, Tick, tables
  <2> QED BY <2>1, <2>2, <2>3, <2>4 DEF Next
<1> QED BY <1>1, AlwaysTyped, PTL DEF Spec, DailyIsFinal

-----------------------------------------------------------------------------
(* The symbols that are a session's own                                    *)

AfterSave == {"build", "publish", "register", "child", "reload"}

\* From the save on, the file holds the generation of the session's memory.
OwnFile(s) == /\ file[Sym(s)] # None
              /\ file[Sym(s)].gen = ses[s].gen /\ file[Sym(s)].run = ses[s].run
Owned == \A s \in Sessions : ses[s].pc \in AfterSave /\ Sym(s) \in OwnSymbols => OwnFile(s)

LEMMA SymIsMine == ASSUME TypeOK, NEW s \in Sessions PROVE Sym(s) \in Mine(s)
  BY ItsMemory DEF Sym, Mine, Range

\* No other session steps at an own symbol, no other place of the list names it.
LEMMA OwnIsApart ==
  ASSUME NEW x \in OwnSymbols, NEW s \in Sessions, x \in Mine(s)
  PROVE  /\ \A t \in Sessions : x \in Mine(t) => t = s
         /\ \A i, j \in DOMAIN Selected[s] : Selected[s][i] = x /\ Selected[s][j] = x => i = j
         /\ ~Fault(s, "save")
  BY DEF OwnSymbols, Mine, Range

LEMMA OwnedKept ==
  ASSUME Owned, NEW s \in Sessions, OnlyOf(s), UNCHANGED file,
         \/ ses'[s].pc \notin AfterSave
         \/ ses[s].pc \in AfterSave /\ SameSymbol(s) /\ ses'[s].run = ses[s].run
  PROVE  Owned'
<1> SUFFICES ASSUME NEW t \in Sessions, ses'[t].pc \in AfterSave,
                    Selected[t][ses'[t].idx] \in OwnSymbols
             PROVE  /\ file[Selected[t][ses'[t].idx]] # None
                    /\ file[Selected[t][ses'[t].idx]].gen = ses'[t].gen
                    /\ file[Selected[t][ses'[t].idx]].run = ses'[t].run
  BY DEF Owned, OwnFile, Sym
<1>1. CASE t = s
  BY <1>1 DEF Owned, OwnFile, Sym, SameSymbol
<1>2. CASE t # s
  BY <1>2 DEF Owned, OwnFile, Sym, OnlyOf
<1> QED BY <1>1, <1>2

LEMMA SaveOwned ==
  ASSUME Typed, Owned, NEW s \in Sessions, Save(s)
  PROVE  Owned'
<1>1. /\ OnlyOf(s) /\ ses'[s].idx = ses[s].idx /\ ses'[s].gen = ses[s].gen
      /\ ses'[s].run = ses[s].run /\ ses[s].pc = "save"
      /\ \A x \in Symbols : x # Sym(s) => file'[x] = file[x]
      /\ ~Fault(s, "save") => file'[Sym(s)] = Payload(ses[s])
  BY SaveEffect DEF Moves, SameRun, SameSymbol
<1>a. \A t \in Sessions : Sym(t) \in Mine(t) /\ Sym(t) \in Symbols
  BY SymIsMine, ItsMemory DEF Typed
<1> SUFFICES ASSUME NEW t \in Sessions, ses'[t].pc \in AfterSave,
                    Selected[t][ses'[t].idx] \in OwnSymbols
             PROVE  /\ file'[Selected[t][ses'[t].idx]] # None
                    /\ file'[Selected[t][ses'[t].idx]].gen = ses'[t].gen
                    /\ file'[Selected[t][ses'[t].idx]].run = ses'[t].run
  BY DEF Owned, OwnFile, Sym
<1>2. CASE t = s
  <2>1. Payload(ses[s]) # None
    BY <1>1, PayloadTypes DEF Typed, Working
  <2>2. Payload(ses[s]).gen = ses[s].gen /\ Payload(ses[s]).run = ses[s].run
    BY DEF Payload
  <2>3. Sym(s) \in OwnSymbols
    BY <1>1, <1>2 DEF Sym
  <2>4. file'[Sym(s)] = Payload(ses[s])
    BY <1>1, <1>a, <2>3, OwnIsApart
  <2> QED BY <1>1, <1>2, <2>1, <2>2, <2>4 DEF Sym
<1>3. CASE t # s
  <2>1. ses'[t] = ses[t] /\ Sym(t) \in OwnSymbols
    BY <1>1, <1>3 DEF OnlyOf, Sym
  <2>2. Sym(t) # Sym(s)
    BY <1>3, <1>a, <2>1, OwnIsApart
  <2>3. file'[Sym(t)] = file[Sym(t)]
    BY <1>1, <1>a, <2>2
  <2> QED BY <2>1, <2>3 DEF Owned, OwnFile, Sym
<1> QED BY <1>2, <1>3

LEMMA NextOwned ==
  ASSUME Typed, Owned, [Next]_vars
  PROVE  Owned'
<1>1. CASE UNCHANGED vars
  BY <1>1 DEF vars, Owned, OwnFile, Sym
<1>2. CASE Tick
  BY <1>2 DEF Tick, Owned, OwnFile, Sym
<1>3. ASSUME NEW s \in Sessions, Save(s) PROVE Owned'
  BY <1>3, SaveOwned
<1>4. ASSUME NEW s \in Sessions, Build(s) \/ Publish(s) \/ Register(s) \/ PublishChild(s)
      PROVE  Owned'
  <2>1. /\ OnlyOf(s) /\ UNCHANGED file /\ ses[s].pc \in AfterSave /\ SameSymbol(s)
        /\ ses'[s].run = ses[s].run
    BY <1>4, BuildEffect, PublishEffect, RegisterEffect, PublishChildEffect
       DEF Moves, SameRun, AfterSave
  <2> QED BY <2>1, OwnedKept
<1>5. ASSUME NEW s \in Sessions,
             \/ Begin(s) \/ Activate(s) \/ Calculate(s) \/ RunnerFails(s) \/ Reload(s) \/ Finish(s)
      PROVE  Owned'
  <2>1. OnlyOf(s) /\ UNCHANGED file /\ ses'[s].pc \notin AfterSave
    BY <1>5, BeginEffect, ActivateEffect, CalculateEffect, RunnerFailsEffect, ReloadEffect,
       FinishEffect DEF Moves, Advances, AfterSave
  <2> QED BY <2>1, OwnedKept
<1>6. ASSUME NEW s \in Sessions,
             \/ ShowRun(s) \/ DailyLook(s) \/ DailySecond(s) \/ DailyInsert(s) \/ Complete(s)
             \/ Strict(s) \/ Partial(s) \/ End(s) \/ View(s) \/ Interrupt(s)
      PROVE  Owned'
  <2>1. OnlyOf(s) /\ UNCHANGED file /\ ses'[s].pc \notin AfterSave
    <3>1. CASE ShowRun(s) \/ DailyLook(s) \/ DailySecond(s) \/ DailyInsert(s) \/ Complete(s)
      BY <3>1, ShowRunEffect, DailyLookEffect, DailySecondEffect, DailyInsertEffect,
         CompleteEffect DEF Moves, AfterSave
    <3>2. CASE Strict(s) \/ Partial(s) \/ End(s) \/ View(s) \/ Interrupt(s)
      BY <3>2, StrictEffect, PartialEffect, EndEffect, ViewEffect, InterruptEffect
         DEF Moves, AfterSave
    <3> QED BY <1>6, <3>1, <3>2
  <2> QED BY <2>1, OwnedKept
<1>7. ASSUME NEW s \in Sessions, Restart(s) PROVE Owned'
  <2>1. OnlyOf(s) /\ UNCHANGED file /\ ses'[s].pc \notin AfterSave
    BY <1>7, RestartEffect DEF Typed, OnlyOf, AfterSave
  <2> QED BY <2>1, OwnedKept
<1> QED BY <1>1, <1>2, <1>3, <1>4, <1>5, <1>6, <1>7 DEF Next

LEMMA InitOwned == Init => Owned
  BY FreshIsMemory DEF Init, Owned, AfterSave

LEMMA NextRegistered ==
  ASSUME Typed, Owned, RegisteredIsOwn, [Next]_vars
  PROVE  RegisteredIsOwn'
<1>1. CASE UNCHANGED registry
  BY <1>1 DEF RegisteredIsOwn
<1>2. ASSUME NEW s \in Sessions, Register(s) PROVE RegisteredIsOwn'
  <2> DEFINE row == [run |-> ses[s].run, symbol |-> Sym(s), gen |-> ses[s].gen, sha |-> file[Sym(s)]]
  <2>1. /\ registry' = Append(registry, row) /\ registry \in Seq(Child)
        /\ Sym(s) \in OwnSymbols => OwnFile(s)
    BY <1>2, RegisterEffect DEF Typed, TypeOK, Owned, AfterSave, Moves
  <2>2. row.symbol \in OwnSymbols => row.sha.gen = row.gen /\ row.sha.run = row.run
    BY <2>1 DEF OwnFile
  <2> HIDE DEF row
  <2>3. \A g \in Range(registry') : g \in Range(registry) \/ g = row
    BY <2>1 DEF Range
  <2> QED BY <2>2, <2>3 DEF RegisteredIsOwn
<1>3. CASE UNCHANGED vars \/ Tick
  BY <1>1, <1>3 DEF vars, tables, Tick
<1>4. ASSUME NEW s \in Sessions,
             \/ Begin(s) \/ Activate(s) \/ Calculate(s) \/ RunnerFails(s) \/ Save(s) \/ Build(s)
             \/ Publish(s) \/ PublishChild(s) \/ Reload(s) \/ Finish(s) \/ ShowRun(s)
             \/ DailyLook(s) \/ DailySecond(s) \/ DailyInsert(s) \/ Complete(s) \/ Strict(s)
             \/ Partial(s) \/ End(s) \/ View(s) \/ Interrupt(s) \/ Restart(s)
      PROVE  UNCHANGED registry
  BY <1>4 DEF Begin, Activate, Calculate, RunnerFails, Save, Build, Publish, PublishChild, Reload,
     Finish, ShowRun, DailyLook, DailySecond, DailyInsert, Complete, Strict, Partial, End, View,
     Interrupt, Restart, tables
<1> QED BY <1>1, <1>2, <1>3, <1>4 DEF Next

\* A session restored from the registered row of an own symbol has the generation that
\* the row names, whatever happens to the files that sessions share or fail to write.
THEOREM RegisteredHolds == Spec => []RegisteredIsOwn
<1>1. Init => RegisteredIsOwn
  BY DEF Init, RegisteredIsOwn, Range
<1>2. Typed /\ Owned /\ [Next]_vars => Owned'
  BY NextOwned
<1> QED BY <1>1, <1>2, InitOwned, NextRegistered, AlwaysTyped, PTL DEF Spec

\* Every row of the publications names the generation in the file it has the
\* checksum of, whatever the reload said.
PubsOwn == \A p \in pubs : p.symbol \in OwnSymbols => p.sha # None /\ p.sha.gen = p.gen

LEMMA NextPubsOwn ==
  ASSUME Typed, Owned, PubsOwn, [Next]_vars
  PROVE  PubsOwn'
<1>1. CASE UNCHANGED pubs
  BY <1>1 DEF PubsOwn
<1>2. ASSUME NEW s \in Sessions, PublishChild(s) PROVE PubsOwn'
  <2>1. PICK status : pubs' = {p \in pubs : ~SameRow(p, Row(s, status))} \cup {Row(s, status)}
    BY <1>2, PublishChildEffect
  <2>2. Sym(s) \in OwnSymbols => OwnFile(s)
    BY <1>2, PublishChildEffect DEF Owned, AfterSave, Moves
  <2>3. Row(s, status).symbol \in OwnSymbols =>
          Row(s, status).sha # None /\ Row(s, status).sha.gen = Row(s, status).gen
    BY <2>2 DEF Row, OwnFile
  <2> QED BY <2>1, <2>3 DEF PubsOwn
<1>3. ASSUME NEW s \in Sessions, Reload(s) PROVE PubsOwn'
  <2>1. PICK status :
          pubs' = {IF SameRow(p, Row(s, status)) THEN [p EXCEPT !.status = status] ELSE p : p \in pubs}
    BY <1>3, ReloadEffect
  <2>2. \A p \in Publication : /\ [p EXCEPT !.status = status].sha = p.sha
                               /\ [p EXCEPT !.status = status].gen = p.gen
                               /\ [p EXCEPT !.status = status].symbol = p.symbol
    BY DEF Publication
  <2>3. \A p \in pubs : p \in Publication
    BY DEF Typed, TypeOK
  <2>4. SUFFICES ASSUME NEW q \in pubs', q.symbol \in OwnSymbols
                 PROVE  q.sha # None /\ q.sha.gen = q.gen
    BY DEF PubsOwn
  <2>5. PICK p \in pubs : q = IF SameRow(p, Row(s, status)) THEN [p EXCEPT !.status = status] ELSE p
    BY <2>1, <2>4
  <2>6. q.sha = p.sha /\ q.gen = p.gen /\ q.symbol = p.symbol
    BY <2>2, <2>3, <2>5
  <2> QED BY <2>4, <2>6 DEF PubsOwn
<1>4. CASE UNCHANGED vars \/ Tick
  BY <1>1, <1>4 DEF vars, tables, Tick
<1>5. ASSUME NEW s \in Sessions,
             \/ Begin(s) \/ Activate(s) \/ Calculate(s) \/ RunnerFails(s) \/ Save(s) \/ Build(s)
             \/ Publish(s) \/ Register(s) \/ Finish(s) \/ ShowRun(s) \/ DailyLook(s)
             \/ DailySecond(s) \/ DailyInsert(s) \/ Complete(s) \/ Strict(s) \/ Partial(s)
             \/ End(s) \/ View(s) \/ Interrupt(s) \/ Restart(s)
      PROVE  UNCHANGED pubs
  BY <1>5 DEF Begin, Activate, Calculate, RunnerFails, Save, Build, Publish, Register, Finish,
     ShowRun, DailyLook, DailySecond, DailyInsert, Complete, Strict, Partial, End, View,
     Interrupt, Restart, tables
<1> QED BY <1>1, <1>2, <1>3, <1>4, <1>5 DEF Next

\* A publication of an own symbol that is called COMPLETED names the generation in the
\* file it gives the checksum of.
THEOREM ReloadedHolds == Spec => []ReloadedIsOwn
<1>1. Init => PubsOwn
  BY DEF Init, PubsOwn
<1>2. Typed /\ Owned /\ [Next]_vars => Owned'
  BY NextOwned
<1>3. PubsOwn => ReloadedIsOwn
  BY DEF PubsOwn, ReloadedIsOwn
<1> QED BY <1>1, <1>2, <1>3, InitOwned, NextPubsOwn, AlwaysTyped, PTL DEF Spec

-----------------------------------------------------------------------------
(* What a run calls completed                                              *)

AfterLoop == {"finish", "show", "look", "second", "insert", "complete", "strict", "partial",
              "end"}

IdleIsEmpty(s) == ses[s].pc = "idle" => ses[s].completed = {}

\* A completed symbol is one the loop has left behind.
Behind(s) == \A x \in ses[s].completed : \E i \in DOMAIN Selected[s] :
               Selected[s][i] = x /\ (i < ses[s].idx \/ ses[s].pc \in AfterLoop)

\* A completed symbol has a publication of the file that this run saved.
Held(s, x) == \E p \in pubs : /\ p.symbol = x /\ p.status = "COMPLETED"
                              /\ p.sha = file[x] /\ file[x].run = ses[s].run
AllHeld(s) == \A x \in ses[s].completed \cap OwnSymbols : Held(s, x)

\* The row that the reload is going to judge is there, and is that of the file.
Judged(s, p) == /\ p.run = Identity(ses[s]) /\ p.symbol = Sym(s) /\ p.gen = ses[s].gen
                /\ p.sha = file[Sym(s)]
Pending(s) == ses[s].pc = "reload" /\ Sym(s) \in OwnSymbols => \E p \in pubs : Judged(s, p)

Ready(s) == ses[s].pc \in {"second", "insert"} => ses[s].completed = Mine(s)

WholeOf(s) == IdleIsEmpty(s) /\ Behind(s) /\ AllHeld(s) /\ Pending(s) /\ Ready(s)
Whole == \A s \in Sessions : WholeOf(s)

\* A step of session s leaves the files and the publications of other symbols alone.
OnlyItsSymbol(s) ==
  /\ \A x \in Symbols : x # Sym(s) => file'[x] = file[x]
  /\ \A p \in pubs : p.symbol # Sym(s) => p \in pubs'

LEMMA HeldIsMine ==
  ASSUME NEW s \in Sessions, Behind(s), NEW x \in ses[s].completed
  PROVE  x \in Mine(s) /\ x \in Symbols
<1>1. x \in Mine(s)
  BY DEF Behind, Mine, Range
<1> QED BY <1>1, SelectedIsSeq

LEMMA HeldKept ==
  ASSUME NEW s \in Sessions, NEW t \in Sessions, OnlyItsSymbol(s), ses'[t].run = ses[t].run,
         NEW x \in Symbols, x # Sym(s), Held(t, x)
  PROVE  Held(t, x)'
  BY DEF Held, OnlyItsSymbol

\* The other sessions keep what they have.
LEMMA OthersWhole ==
  ASSUME Typed, Whole, NEW s \in Sessions, OnlyOf(s), OnlyItsSymbol(s),
         NEW t \in Sessions, t # s
  PROVE  WholeOf(t)'
<1>1. ses'[t] = ses[t] /\ WholeOf(t)
  BY DEF OnlyOf, Whole
<1>2. Sym(s) \in Mine(s) /\ Sym(t) \in Mine(t) /\ Sym(t) \in Symbols /\ Sym(t)' = Sym(t)
  BY <1>1, SymIsMine, ItsMemory DEF Typed, Sym
<1>3. \A x \in OwnSymbols : x \in Mine(t) => x # Sym(s)
  BY <1>2, OwnIsApart
<1>4. IdleIsEmpty(t)' /\ Behind(t)' /\ Ready(t)'
  BY <1>1 DEF WholeOf, IdleIsEmpty, Behind, Ready
<1>5. AllHeld(t)'
  <2> SUFFICES ASSUME NEW x \in ses[t].completed \cap OwnSymbols PROVE Held(t, x)'
    BY <1>1 DEF AllHeld
  <2>1. x \in Mine(t) /\ x \in Symbols /\ Held(t, x)
    BY <1>1, HeldIsMine DEF WholeOf, AllHeld
  <2>2. x # Sym(s)
    BY <1>3, <2>1
  <2> QED BY <1>1, <2>1, <2>2, HeldKept
<1>6. Pending(t)'
  <2> SUFFICES ASSUME ses[t].pc = "reload", Sym(t) \in OwnSymbols
               PROVE  \E p \in pubs' : Judged(t, p)'
    BY <1>1, <1>2 DEF Pending
  <2>1. PICK p \in pubs : Judged(t, p)
    BY <1>1 DEF WholeOf, Pending
  <2>2. p \in pubs' /\ file'[Sym(t)] = file[Sym(t)]
    BY <1>2, <1>3, <2>1 DEF OnlyItsSymbol, Judged
  <2>3. Judged(t, p)'
    BY <1>1, <1>2, <2>1, <2>2 DEF Judged, Identity
  <2> QED BY <2>2, <2>3
<1> QED BY <1>4, <1>5, <1>6 DEF WholeOf

\* So does the session itself, for the symbols it has left behind.
LEMMA OwnHeld ==
  ASSUME Typed, NEW s \in Sessions, WholeOf(s), OnlyItsSymbol(s),
         ses[s].pc \notin AfterLoop, ses'[s].run = ses[s].run
  PROVE  \A x \in ses[s].completed \cap OwnSymbols : Held(s, x)'
<1> SUFFICES ASSUME NEW x \in ses[s].completed \cap OwnSymbols PROVE Held(s, x)'
  OBVIOUS
<1>1. x \in Symbols /\ x \in Mine(s) /\ Held(s, x)
  BY HeldIsMine DEF WholeOf, AllHeld
<1>2. PICK i \in DOMAIN Selected[s] : Selected[s][i] = x /\ i < ses[s].idx
  BY DEF WholeOf, Behind
<1>3. ses[s].idx \in DOMAIN Selected[s] /\ i # ses[s].idx
  BY <1>2, ItsMemory, SelectedIsSeq DEF Typed
<1>4. x # Sym(s)
  BY <1>1, <1>2, <1>3, OwnIsApart DEF Sym
<1> QED BY <1>1, <1>4, HeldKept

LEMMA Quiet ==
  ASSUME NEW s \in Sessions, UNCHANGED <<file, pubs>>
  PROVE  OnlyItsSymbol(s)
  BY DEF OnlyItsSymbol

LEMMA HeldQuiet ==
  ASSUME NEW s \in Sessions, NEW x, UNCHANGED <<file, pubs>>, ses'[s].run = ses[s].run, Held(s, x)
  PROVE  Held(s, x)'
  BY DEF Held

LEMMA WholeStep ==
  ASSUME Typed, Whole, NEW s \in Sessions, OnlyOf(s), OnlyItsSymbol(s), WholeOf(s)'
  PROVE  Whole'
<1> SUFFICES ASSUME NEW t \in Sessions PROVE WholeOf(t)'
  BY DEF Whole
<1>1. CASE t = s
  BY <1>1
<1>2. CASE t # s
  BY <1>2, OthersWhole
<1> QED BY <1>1, <1>2

\* The steps that leave the files and the publications alone and stay in the run.
LEMMA QuietStep ==
  ASSUME Typed, Whole, NEW s \in Sessions, OnlyOf(s), UNCHANGED <<file, pubs>>,
         SameCompleted(s), ses'[s].run = ses[s].run \/ ses[s].completed = {},
         ses'[s].pc # "reload", ses'[s].pc = "idle" => ses[s].pc = "idle",
         ses'[s].pc \in {"second", "insert"} => ses[s].completed = Mine(s),
         \/ ses'[s].pc \in AfterLoop
         \/ ses[s].pc \notin AfterLoop /\ ses'[s].idx = ses[s].idx
         \/ ses[s].pc \notin AfterLoop /\ ses'[s].idx = ses[s].idx + 1
  PROVE  Whole'
<1>1. WholeOf(s) /\ OnlyItsSymbol(s)
  BY Quiet DEF Whole
<1>2. IdleIsEmpty(s)' /\ Pending(s)' /\ Ready(s)'
  BY <1>1 DEF WholeOf, IdleIsEmpty, Pending, Ready, SameCompleted
<1>3. AllHeld(s)'
  BY <1>1, HeldQuiet DEF WholeOf, AllHeld, SameCompleted
<1>4. Behind(s)'
  <2> SUFFICES ASSUME NEW x \in ses[s].completed
               PROVE  \E i \in DOMAIN Selected[s] :
                        Selected[s][i] = x /\ (i < ses'[s].idx \/ ses'[s].pc \in AfterLoop)
    BY DEF Behind, SameCompleted
  <2>1. PICK i \in DOMAIN Selected[s] :
           Selected[s][i] = x /\ (i < ses[s].idx \/ ses[s].pc \in AfterLoop)
    BY <1>1 DEF WholeOf, Behind
  <2>2. i \in Nat /\ ses[s].idx \in Nat
    BY ItsMemory, SelectedIsSeq DEF Typed
  <2>3. i < ses[s].idx => i < ses[s].idx + 1
    BY <2>2
  <2> QED BY <2>1, <2>3
<1> QED BY <1>1, <1>2, <1>3, <1>4, WholeStep DEF WholeOf

\* The steps that end in an idle session.
LEMMA IdleStep ==
  ASSUME Typed, Whole, NEW s \in Sessions, OnlyOf(s), UNCHANGED <<file, pubs>>,
         ses'[s].pc = "idle", ses'[s].completed = {}
  PROVE  Whole'
<1>1. WholeOf(s)'
  BY DEF WholeOf, IdleIsEmpty, Behind, AllHeld, Pending, Ready
<1> QED BY <1>1, Quiet, WholeStep

\* The three steps that write a file or a publication.
LEMMA LoopBehind ==
  ASSUME NEW s \in Sessions, Behind(s), ses[s].pc \notin AfterLoop, SameCompleted(s),
         ses'[s].idx = ses[s].idx
  PROVE  Behind(s)'
  BY DEF Behind, SameCompleted

LEMMA SaveWhole ==
  ASSUME Typed, Whole, NEW s \in Sessions, Save(s)
  PROVE  Whole'
<1>1. /\ OnlyOf(s) /\ SameCompleted(s) /\ ses'[s].idx = ses[s].idx /\ ses'[s].run = ses[s].run
      /\ ses[s].pc = "save" /\ ses'[s].pc = "build" /\ OnlyItsSymbol(s) /\ WholeOf(s)
  BY SaveEffect DEF Moves, SameRun, SameSymbol, OnlyItsSymbol, tables, Whole
<1>2. IdleIsEmpty(s)' /\ Pending(s)' /\ Ready(s)'
  BY <1>1 DEF IdleIsEmpty, Pending, Ready
<1>3. Behind(s)'
  BY <1>1, LoopBehind DEF WholeOf, AfterLoop
<1>4. AllHeld(s)'
  BY <1>1, OwnHeld DEF AllHeld, AfterLoop, SameCompleted
<1> QED BY <1>1, <1>2, <1>3, <1>4, WholeStep DEF WholeOf

LEMMA PublishChildWhole ==
  ASSUME Typed, Whole, NEW s \in Sessions, PublishChild(s)
  PROVE  Whole'
<1>1. PICK status : pubs' = {p \in pubs : ~SameRow(p, Row(s, status))} \cup {Row(s, status)}
  BY PublishChildEffect
<1>2. /\ OnlyOf(s) /\ SameCompleted(s) /\ SameSymbol(s) /\ ses'[s].run = ses[s].run
      /\ ses'[s].child = ses[s].child /\ ses[s].pc = "child" /\ ses'[s].pc = "reload"
      /\ UNCHANGED file /\ WholeOf(s)
  BY PublishChildEffect DEF Moves, SameRun, Whole
<1>3. OnlyItsSymbol(s)
  BY <1>1, <1>2 DEF OnlyItsSymbol, SameRow, Row
<1>4. IdleIsEmpty(s)' /\ Ready(s)'
  BY <1>2 DEF IdleIsEmpty, Ready
<1>5. Behind(s)'
  BY <1>2, LoopBehind DEF WholeOf, AfterLoop, SameSymbol
<1>6. AllHeld(s)'
  BY <1>2, <1>3, OwnHeld DEF AllHeld, AfterLoop, SameCompleted
<1>7. Pending(s)'
  <2> PICK p : p = Row(s, status)
    OBVIOUS
  <2>1. p \in pubs'
    BY <1>1
  <2>2. Judged(s, p)'
    BY <1>2 DEF Judged, Row, Identity, Sym, SameSymbol
  <2> QED BY <2>1, <2>2 DEF Pending
<1> QED BY <1>2, <1>3, <1>4, <1>5, <1>6, <1>7, WholeStep DEF WholeOf

LEMMA ReloadWhole ==
  ASSUME Typed, Owned, Whole, NEW s \in Sessions, Reload(s)
  PROVE  Whole'
<1>1. PICK status :
        /\ ReloadPasses(Sym(s)) => status = "COMPLETED"
        /\ pubs' = {IF SameRow(p, Row(s, status)) THEN [p EXCEPT !.status = status] ELSE p : p \in pubs}
  BY ReloadEffect
<1>2. /\ OnlyOf(s) /\ ses'[s].run = ses[s].run /\ ses[s].pc = "reload" /\ UNCHANGED file
      /\ \/ ses'[s].pc = "activate" /\ ses'[s].idx = ses[s].idx + 1
         \/ ses'[s].pc = "finish" /\ ses'[s].idx = ses[s].idx
      /\ \/ SameCompleted(s)
         \/ ReloadPasses(Sym(s)) /\ ses'[s].completed = ses[s].completed \cup {Sym(s)}
      /\ WholeOf(s)
  BY ReloadEffect DEF Advances, Moves, SameRun, Whole
<1>3. OnlyItsSymbol(s)
  <2> SUFFICES ASSUME NEW p \in pubs, p.symbol # Sym(s) PROVE p \in pubs'
    BY <1>2 DEF OnlyItsSymbol
  <2>1. ~SameRow(p, Row(s, status))
    BY DEF SameRow, Row
  <2> QED BY <1>1, <2>1
<1>4. IdleIsEmpty(s)' /\ Pending(s)' /\ Ready(s)'
  BY <1>2 DEF IdleIsEmpty, Pending, Ready
<1>5. Behind(s)'
  <2> SUFFICES ASSUME NEW x \in ses'[s].completed
               PROVE  \E i \in DOMAIN Selected[s] :
                        Selected[s][i] = x /\ (i < ses'[s].idx \/ ses'[s].pc \in AfterLoop)
    BY DEF Behind
  <2>1. /\ ses[s].idx \in DOMAIN Selected[s] /\ ses[s].idx \in Nat
        /\ \A i \in DOMAIN Selected[s] : i \in Nat
    BY ItsMemory, SelectedIsSeq DEF Typed
  <2>2. CASE x = Sym(s)
    BY <1>2, <2>1, <2>2 DEF Sym, AfterLoop
  <2>3. CASE x # Sym(s)
    <3>1. x \in ses[s].completed
      BY <1>2, <2>3 DEF SameCompleted
    <3>2. PICK i \in DOMAIN Selected[s] : Selected[s][i] = x /\ i < ses[s].idx
      BY <1>2, <3>1 DEF WholeOf, Behind, AfterLoop
    <3>3. i < ses[s].idx + 1
      BY <2>1, <3>2
    <3> QED BY <1>2, <3>2, <3>3
  <2> QED BY <2>2, <2>3
<1>6. \A x \in ses[s].completed \cap OwnSymbols : Held(s, x)'
  BY <1>2, <1>3, OwnHeld DEF AfterLoop
<1>7. ASSUME ReloadPasses(Sym(s)), NEW x \in OwnSymbols, x = Sym(s) PROVE Held(s, x)'
  <2> SUFFICES \E q \in pubs' : /\ q.symbol = x /\ q.status = "COMPLETED"
                               /\ q.sha = file'[x] /\ file'[x].run = ses'[s].run
    BY DEF Held
  <2>1. PICK p \in pubs : Judged(s, p)
    BY <1>2, <1>7 DEF WholeOf, Pending
  <2>2. SameRow(p, Row(s, status)) /\ p \in Publication
    BY <2>1 DEF SameRow, Row, Judged, Typed, TypeOK
  <2> DEFINE q == [p EXCEPT !.status = status]
  <2>3. q \in pubs'
    BY <1>1, <2>2
  <2>4. q.symbol = p.symbol /\ q.sha = p.sha /\ q.status = "COMPLETED"
    BY <1>1, <1>7, <2>2 DEF Publication
  <2>5. file[Sym(s)].run = ses[s].run
    BY <1>2, <1>7 DEF Owned, OwnFile, AfterSave
  <2> HIDE DEF q
  <2> QED BY <1>2, <1>7, <2>1, <2>3, <2>4, <2>5 DEF Judged
<1>8. AllHeld(s)'
  <2> SUFFICES ASSUME NEW x \in ses'[s].completed \cap OwnSymbols PROVE Held(s, x)'
    BY DEF AllHeld
  <2>1. x \in ses[s].completed \/ (x = Sym(s) /\ ReloadPasses(Sym(s)))
    BY <1>2 DEF SameCompleted
  <2> QED BY <1>6, <1>7, <2>1
<1> QED BY <1>2, <1>3, <1>4, <1>5, <1>8, WholeStep DEF WholeOf

LEMMA NextWhole ==
  ASSUME Typed, Owned, Whole, [Next]_vars
  PROVE  Whole'
<1>1. CASE UNCHANGED vars
  BY <1>1 DEF vars, tables, Whole, WholeOf, IdleIsEmpty, Behind, AllHeld, Held, Pending, Judged,
     Identity, Ready, Sym
<1>2. CASE Tick
  BY <1>2 DEF Tick, tables, Whole, WholeOf, IdleIsEmpty, Behind, AllHeld, Held, Pending, Judged,
     Identity, Ready, Sym
<1>3. ASSUME NEW s \in Sessions, Save(s) \/ PublishChild(s) \/ Reload(s) PROVE Whole'
  BY <1>3, SaveWhole, PublishChildWhole, ReloadWhole
<1>4. ASSUME NEW s \in Sessions, Begin(s) PROVE Whole'
  <2>1. /\ OnlyOf(s) /\ UNCHANGED <<file, pubs>> /\ SameCompleted(s) /\ ses[s].pc = "idle"
        /\ ses'[s].pc = "activate" /\ ses'[s].idx = ses[s].idx
    BY <1>4, BeginEffect DEF Moves, SameSymbol, tables
  <2>2. ses[s].completed = {}
    BY <2>1 DEF Whole, WholeOf, IdleIsEmpty
  <2> QED BY <2>1, <2>2, QuietStep DEF AfterLoop
<1>5. ASSUME NEW s \in Sessions,
             \/ Activate(s) \/ Calculate(s) \/ Build(s) \/ Publish(s) \/ Register(s) \/ View(s)
      PROVE  Whole'
  <2>1. /\ OnlyOf(s) /\ UNCHANGED <<file, pubs>> /\ SameCompleted(s) /\ ses'[s].run = ses[s].run
        /\ ses[s].pc \notin AfterLoop /\ ses'[s].idx = ses[s].idx
        /\ ses'[s].pc \notin {"reload", "second", "insert"} /\ (ses'[s].pc = "idle" => ses[s].pc = "idle")
    <3>1. CASE Activate(s) \/ Calculate(s) \/ Build(s)
      BY <3>1, ActivateEffect, CalculateEffect, BuildEffect
         DEF Moves, SameRun, SameSymbol, tables, AfterLoop
    <3>2. CASE Publish(s) \/ Register(s) \/ View(s)
      BY <3>2, PublishEffect, RegisterEffect, ViewEffect
         DEF Moves, SameRun, SameSymbol, tables, AfterLoop
    <3> QED BY <1>5, <3>1, <3>2
  <2> QED BY <2>1, QuietStep
<1>6. ASSUME NEW s \in Sessions, RunnerFails(s) PROVE Whole'
  <2>1. /\ OnlyOf(s) /\ UNCHANGED <<file, pubs>> /\ SameCompleted(s) /\ ses'[s].run = ses[s].run
        /\ ses[s].pc = "calculate"
        /\ \/ ses'[s].pc = "activate" /\ ses'[s].idx = ses[s].idx + 1
           \/ ses'[s].pc = "finish" /\ ses'[s].idx = ses[s].idx
    BY <1>6, RunnerFailsEffect DEF Advances, Moves, SameRun, tables
  <2> QED BY <2>1, QuietStep DEF AfterLoop
<1>7. ASSUME NEW s \in Sessions, Finish(s) \/ DailyLook(s) \/ DailySecond(s) \/ DailyInsert(s)
      PROVE  Whole'
  <2>1. /\ OnlyOf(s) /\ UNCHANGED <<file, pubs>> /\ SameCompleted(s) /\ ses'[s].run = ses[s].run
        /\ ses'[s].pc \in AfterLoop
    BY <1>7, FinishEffect, DailyLookEffect, DailySecondEffect, DailyInsertEffect
       DEF Moves, SameRun, tables, AfterLoop
  <2>2. ses'[s].pc \in {"second", "insert"} => ses[s].completed = Mine(s)
    <3>1. Ready(s)
      BY DEF Whole, WholeOf
    <3> QED BY <1>7, <3>1, FinishEffect, DailyLookEffect, DailySecondEffect, DailyInsertEffect
            DEF Moves, AllCompleted, Ready
  <2> QED BY <2>1, <2>2, QuietStep DEF AfterLoop
<1>8. ASSUME NEW s \in Sessions, ShowRun(s) \/ Complete(s) \/ Strict(s) \/ Partial(s)
      PROVE  Whole'
  <2>1. /\ OnlyOf(s) /\ UNCHANGED <<file, pubs>> /\ SameCompleted(s) /\ ses'[s].run = ses[s].run
        /\ ses'[s].pc \in AfterLoop \ {"second", "insert"}
    BY <1>8, ShowRunEffect, CompleteEffect, StrictEffect, PartialEffect
       DEF Moves, SameRun, tables, AfterLoop
  <2> QED BY <2>1, QuietStep DEF AfterLoop
<1>9. ASSUME NEW s \in Sessions, End(s) \/ Interrupt(s) \/ Restart(s) PROVE Whole'
  <2>1. /\ OnlyOf(s) /\ UNCHANGED <<file, pubs>> /\ ses'[s].pc = "idle" /\ ses'[s].completed = {}
    BY <1>9, EndEffect, InterruptEffect, RestartEffect DEF Typed, Moves, OnlyOf, tables
  <2> QED BY <2>1, IdleStep
<1> QED BY <1>1, <1>2, <1>3, <1>4, <1>5, <1>6, <1>7, <1>8, <1>9 DEF Next

\* When a run is published for the day or called complete, each symbol of its own has
\* a publication that passed the reload, of the file that this run saved.
THEOREM PublishedHolds == Spec => PublishedRunsAreWhole
<1> DEFINE Act == daily' # daily \/ audit' # audit =>
             \A s \in Sessions : ses'[s] # ses[s] => \A x \in Mine(s) \cap OwnSymbols : \E p \in pubs :
               /\ p.symbol = x /\ p.status = "COMPLETED"
               /\ p.sha = file[x] /\ file[x].run = ses[s].run
<1>1. Typed /\ Owned /\ Whole /\ [Next]_vars => [Act]_vars
  <2> SUFFICES ASSUME Typed, Whole, [Next]_vars, daily' # daily \/ audit' # audit,
                      NEW t \in Sessions, ses'[t] # ses[t], NEW x \in Mine(t) \cap OwnSymbols
               PROVE  Held(t, x)
    BY DEF Held
  <2>1. PICK s \in Sessions : DailyInsert(s) \/ (Complete(s) /\ audit' # audit)
    <3>1. ASSUME NEW s \in Sessions,
               \/ Begin(s) \/ Activate(s) \/ Calculate(s) \/ RunnerFails(s) \/ Save(s) \/ Build(s)
               \/ Publish(s) \/ Register(s) \/ PublishChild(s) \/ Reload(s) \/ Finish(s)
               \/ ShowRun(s) \/ DailyLook(s) \/ DailySecond(s) \/ Strict(s) \/ Partial(s)
               \/ End(s) \/ View(s) \/ Interrupt(s) \/ Restart(s)
          PROVE  UNCHANGED <<daily, audit>>
      BY <3>1 DEF Begin, Activate, Calculate, RunnerFails, Save, Build, Publish, Register,
         PublishChild, Reload, Finish, ShowRun, DailyLook, DailySecond, Strict, Partial, End,
         View, Interrupt, Restart, tables
    <3>2. UNCHANGED vars \/ Tick => UNCHANGED <<daily, audit>>
      BY DEF vars, Tick, tables
    <3>3. \A s \in Sessions : Complete(s) => UNCHANGED daily
      BY DEF Complete
    <3> QED BY <3>1, <3>2, <3>3 DEF Next
  <2>2. OnlyOf(s) /\ ses[s].completed = Mine(s)
    <3>1. Ready(s)
      BY DEF Whole, WholeOf
    <3>2. CASE DailyInsert(s)
      BY <3>1, <3>2, DailyInsertEffect DEF Moves, Ready
    <3>3. CASE Complete(s) /\ audit' # audit
      BY <3>3, CompleteEffect DEF Moves
    <3> QED BY <2>1, <3>2, <3>3
  <2>3. t = s
    BY <2>2 DEF OnlyOf
  <2> QED BY <2>2, <2>3 DEF Whole, WholeOf, AllHeld
<1>2. Init => Whole
  <2>1. Fresh.completed = {} /\ Fresh.pc = "idle"
    BY DEF Fresh
  <2> QED BY <2>1 DEF Init, Whole, WholeOf, IdleIsEmpty, Behind, AllHeld, Pending, Ready
<1>3. Typed /\ Owned /\ [Next]_vars => Owned'
  BY NextOwned
<1>4. Typed /\ Owned /\ Whole /\ [Next]_vars => Whole'
  BY NextWhole
<1> QED BY <1>1, <1>2, <1>3, <1>4, InitOwned, AlwaysTyped, PTL DEF Spec, PublishedRunsAreWhole

-----------------------------------------------------------------------------
(* The candidates of a snapshot                                            *)

Active(s) == ses[s].pc # "idle"
AfterDaily == {"complete", "strict", "partial", "end"}

\* Sessions at work have runs of their own, none newer than the last begun; a run
\* that was published for a day publishes no more children.
RunsApart ==
  /\ \A s \in Sessions : Active(s) => ses[s].run <= nruns
  /\ \A s, t \in Sessions : Active(s) /\ Active(t) /\ ses[s].run = ses[t].run => s = t
  /\ \A d \in DOMAIN daily : daily[d] # None => daily[d].run <= nruns
  /\ \A d \in DOMAIN daily, s \in Sessions :
       daily[d] # None /\ Active(s) /\ ses[s].pc \notin AfterDaily => daily[d].run # ses[s].run

OwnRows(run, rows, day) ==
  \A row \in rows : row.eligible =>
    \A c \in children : c.run = run /\ c.symbol = row.symbol =>
      c.sha = row.payload /\ c.gen.candle <= 2 * day

Candidates ==
  /\ \A s \in Sessions : ses[s].pc \in {"second", "insert"} =>
       OwnRows(ses[s].run, ses[s].rows, ses[s].day)
  /\ \A d \in DOMAIN daily : daily[d] # None => OwnRows(daily[d].run, daily[d].rows, d)

LEMMA Numbers ==
  ASSUME TypeOK
  PROVE  /\ nruns \in Nat /\ (\A s \in Sessions : ses[s].run \in Nat)
         /\ \A d \in DOMAIN daily : daily[d] # None => daily[d].run \in Nat
<1>1. Runs \subseteq Nat /\ nruns \in Runs
  BY SymbolRunsOK DEF Runs, TypeOK
<1>2. \A s \in Sessions : ses[s].run \in Runs
  BY DEF TypeOK, Memory
<1>3. \A d \in DOMAIN daily : daily[d] # None => daily[d].run \in Runs
  BY DEF TypeOK
<1> QED BY <1>1, <1>2, <1>3

\* A step of s that begins no run and publishes none.
LEMMA ApartKept ==
  ASSUME RunsApart, NEW s \in Sessions, OnlyOf(s), UNCHANGED <<nruns, daily>>,
         \/ ses'[s].pc = "idle"
         \/ /\ ses'[s].run = ses[s].run /\ ses[s].pc # "idle"
            /\ ses[s].pc \in AfterDaily => ses'[s].pc \in AfterDaily
  PROVE  RunsApart'
<1>1. ASSUME NEW t \in Sessions, ses'[t].pc # "idle"
      PROVE  /\ ses[t].pc # "idle" /\ ses'[t].run = ses[t].run
             /\ ses'[t].pc \notin AfterDaily => ses[t].pc \notin AfterDaily
  <2>1. CASE t = s
    BY <1>1, <2>1
  <2>2. CASE t # s
    BY <1>1, <2>2 DEF OnlyOf
  <2> QED BY <2>1, <2>2
<1> QED BY <1>1 DEF RunsApart, Active

LEMMA BeginApart ==
  ASSUME Typed, RunsApart, NEW s \in Sessions, Begin(s)
  PROVE  RunsApart'
<1>1. /\ OnlyOf(s) /\ UNCHANGED daily /\ nruns' = nruns + 1 /\ ses'[s].run = nruns'
  BY BeginEffect DEF Moves, tables
<1>2. /\ nruns \in Nat /\ (\A t \in Sessions : ses[t].run \in Nat)
      /\ \A d \in DOMAIN daily : daily[d] # None => daily[d].run \in Nat
  BY Numbers DEF Typed
<1>3. \A t \in Sessions : Active(t)' => t = s \/ (Active(t) /\ ses'[t] = ses[t])
  BY <1>1 DEF Active, OnlyOf
<1>4. \A t \in Sessions : Active(t) => ses[t].run < nruns'
  BY <1>1, <1>2 DEF RunsApart
<1>5. \A d \in DOMAIN daily : daily[d] # None => daily[d].run < nruns'
  BY <1>1, <1>2 DEF RunsApart
<1>6. \A t \in Sessions : Active(t)' => ses'[t].run <= nruns'
  BY <1>1, <1>2, <1>3, <1>4
<1>7. \A t, u \in Sessions : Active(t)' /\ Active(u)' /\ ses'[t].run = ses'[u].run => t = u
  <2> SUFFICES ASSUME NEW t \in Sessions, NEW u \in Sessions, Active(t)', Active(u)',
                      ses'[t].run = ses'[u].run
               PROVE  t = u
    OBVIOUS
  <2>1. CASE t = s /\ u # s
    BY <1>1, <1>2, <1>3, <1>4, <2>1
  <2>2. CASE t # s /\ u = s
    BY <1>1, <1>2, <1>3, <1>4, <2>2
  <2>3. CASE t # s /\ u # s
    BY <1>3, <2>3 DEF RunsApart
  <2> QED BY <2>1, <2>2, <2>3
<1>8. \A d \in DOMAIN daily' : daily'[d] # None => daily'[d].run <= nruns'
  BY <1>1, <1>2, <1>5
<1>9. \A d \in DOMAIN daily', t \in Sessions :
         daily'[d] # None /\ Active(t)' /\ ses'[t].pc \notin AfterDaily =>
           daily'[d].run # ses'[t].run
  <2> SUFFICES ASSUME NEW d \in DOMAIN daily, NEW t \in Sessions, daily[d] # None, Active(t)',
                      ses'[t].pc \notin AfterDaily
               PROVE  daily[d].run # ses'[t].run
    BY <1>1
  <2>1. CASE t = s
    BY <1>1, <1>2, <1>5, <2>1
  <2>2. CASE t # s
    BY <1>3, <2>2 DEF RunsApart
  <2> QED BY <2>1, <2>2
<1> QED BY <1>6, <1>7, <1>8, <1>9 DEF RunsApart, Active

LEMMA DailyInsertApart ==
  ASSUME Typed, RunsApart, NEW s \in Sessions, DailyInsert(s)
  PROVE  RunsApart'
<1>1. /\ OnlyOf(s) /\ UNCHANGED nruns /\ ses'[s].run = ses[s].run /\ DOMAIN daily' = DOMAIN daily
      /\ ses[s].pc = "insert" /\ ses'[s].pc = "complete"
      /\ \A d \in DOMAIN daily : daily'[d] # daily[d] => daily'[d] = Snapshot(s)
  BY DailyInsertEffect DEF Moves, SameRun
<1>2. Snapshot(s).run = ses[s].run
  BY DEF Snapshot
<1>3. \A t \in Sessions : (Active(t)' <=> Active(t)) /\ ses'[t].run = ses[t].run
  BY <1>1 DEF Active, OnlyOf
<1>4. ASSUME NEW d \in DOMAIN daily, daily'[d] # None
      PROVE  /\ daily'[d].run <= nruns
             /\ \A t \in Sessions :
                  Active(t)' /\ ses'[t].pc \notin AfterDaily => daily'[d].run # ses'[t].run
  <2>1. CASE daily'[d] = daily[d]
    <3>1. \A t \in Sessions : ses'[t].pc \notin AfterDaily => ses'[t] = ses[t]
      BY <1>1 DEF OnlyOf, AfterDaily
    <3> QED BY <1>3, <1>4, <2>1, <3>1 DEF RunsApart
  <2>2. CASE daily'[d] = Snapshot(s)
    <3>1. ses[s].run <= nruns
      BY <1>1 DEF RunsApart, Active
    <3>2. \A t \in Sessions : Active(t) /\ t # s => ses[t].run # ses[s].run
      BY <1>1 DEF RunsApart, Active
    <3> QED BY <1>1, <1>2, <1>3, <2>2, <3>1, <3>2 DEF AfterDaily
  <2> QED BY <1>1, <2>1, <2>2
<1>5. /\ \A t \in Sessions : Active(t)' => ses'[t].run <= nruns'
      /\ \A t, u \in Sessions : Active(t)' /\ Active(u)' /\ ses'[t].run = ses'[u].run => t = u
  BY <1>1, <1>3 DEF RunsApart
<1> QED BY <1>1, <1>4, <1>5 DEF RunsApart, Active

LEMMA NextApart ==
  ASSUME Typed, RunsApart, [Next]_vars
  PROVE  RunsApart'
<1>1. CASE UNCHANGED vars \/ Tick
  BY <1>1 DEF vars, tables, Tick, RunsApart, Active
<1>2. ASSUME NEW s \in Sessions, Begin(s) \/ DailyInsert(s) PROVE RunsApart'
  BY <1>2, BeginApart, DailyInsertApart
<1>3. ASSUME NEW s \in Sessions,
             \/ Activate(s) \/ Calculate(s) \/ Save(s) \/ Build(s) \/ Publish(s) \/ Register(s)
             \/ PublishChild(s)
      PROVE  RunsApart'
  <2>1. /\ OnlyOf(s) /\ UNCHANGED <<nruns, daily>> /\ ses'[s].run = ses[s].run
        /\ ses[s].pc # "idle" /\ ses[s].pc \notin AfterDaily
    <3>1. CASE Activate(s) \/ Calculate(s) \/ Save(s) \/ Build(s)
      BY <3>1, ActivateEffect, CalculateEffect, SaveEffect, BuildEffect
         DEF Moves, SameRun, tables, AfterDaily
    <3>2. CASE Publish(s) \/ Register(s) \/ PublishChild(s)
      BY <3>2, PublishEffect, RegisterEffect, PublishChildEffect
         DEF Moves, SameRun, tables, AfterDaily
    <3> QED BY <1>3, <3>1, <3>2
  <2> QED BY <2>1, ApartKept
<1>4. ASSUME NEW s \in Sessions,
             \/ RunnerFails(s) \/ Reload(s) \/ Finish(s) \/ ShowRun(s) \/ DailyLook(s)
             \/ DailySecond(s)
      PROVE  RunsApart'
  <2>1. /\ OnlyOf(s) /\ UNCHANGED <<nruns, daily>> /\ ses'[s].run = ses[s].run
        /\ ses[s].pc # "idle" /\ ses[s].pc \notin AfterDaily
    <3>1. CASE RunnerFails(s) \/ Reload(s)
      BY <3>1, RunnerFailsEffect, ReloadEffect DEF Advances, Moves, SameRun, tables, AfterDaily
    <3>2. CASE Finish(s) \/ ShowRun(s) \/ DailyLook(s) \/ DailySecond(s)
      BY <3>2, FinishEffect, ShowRunEffect, DailyLookEffect, DailySecondEffect
         DEF Moves, SameRun, tables, AfterDaily
    <3> QED BY <1>4, <3>1, <3>2
  <2> QED BY <2>1, ApartKept
<1>5. ASSUME NEW s \in Sessions, Complete(s) \/ Strict(s) \/ Partial(s) PROVE RunsApart'
  <2>1. /\ OnlyOf(s) /\ UNCHANGED <<nruns, daily>> /\ ses'[s].run = ses[s].run
        /\ ses[s].pc # "idle" /\ ses'[s].pc \in AfterDaily
    BY <1>5, CompleteEffect, StrictEffect, PartialEffect DEF Moves, SameRun, tables, AfterDaily
  <2> QED BY <2>1, ApartKept
<1>6. ASSUME NEW s \in Sessions, End(s) \/ View(s) \/ Interrupt(s) \/ Restart(s)
      PROVE  RunsApart'
  <2>1. OnlyOf(s) /\ UNCHANGED <<nruns, daily>> /\ ses'[s].pc = "idle"
    BY <1>6, EndEffect, ViewEffect, InterruptEffect, RestartEffect
       DEF Typed, Moves, OnlyOf, tables
  <2> QED BY <2>1, ApartKept
<1> QED BY <1>1, <1>2, <1>3, <1>4, <1>5, <1>6 DEF Next

\* A step that publishes no child and reads no candidates.
LEMMA CandidatesKept ==
  ASSUME Candidates, NEW s \in Sessions, OnlyOf(s), UNCHANGED <<children, daily>>,
         \/ ses'[s].pc \notin {"second", "insert"}
         \/ ses[s].pc = "second" /\ SameRun(s)
  PROVE  Candidates'
<1>1. ASSUME NEW t \in Sessions, ses'[t].pc \in {"second", "insert"}
      PROVE  /\ ses[t].pc \in {"second", "insert"} /\ ses'[t].run = ses[t].run
             /\ ses'[t].rows = ses[t].rows /\ ses'[t].day = ses[t].day
  BY <1>1 DEF OnlyOf, SameRun
<1> QED BY <1>1 DEF Candidates, OwnRows

LEMMA PublishCandidates ==
  ASSUME Typed, RunsApart, Candidates, NEW s \in Sessions, Publish(s)
  PROVE  Candidates'
<1>1. /\ OnlyOf(s) /\ ses[s].pc = "publish" /\ ses'[s].pc \notin {"second", "insert"}
      /\ UNCHANGED daily
      /\ \A c \in children' : c \in children \/ c.run = ses[s].run
  BY PublishEffect DEF Moves
<1>a. Active(s) /\ ses[s].pc \notin AfterDaily
  BY <1>1 DEF Active, AfterDaily
<1>2. ASSUME NEW t \in Sessions, ses'[t].pc \in {"second", "insert"}
      PROVE  ses'[t] = ses[t] /\ ses[t].pc \in {"second", "insert"} /\ ses[t].run # ses[s].run
  BY <1>1, <1>2 DEF OnlyOf, RunsApart, Active
<1>3. \A d \in DOMAIN daily : daily[d] # None => daily[d].run # ses[s].run
  BY <1>a DEF RunsApart
<1>4. ASSUME NEW run, NEW rows, NEW day, OwnRows(run, rows, day), run # ses[s].run
      PROVE  OwnRows(run, rows, day)'
  BY <1>1, <1>4 DEF OwnRows
<1>5. ASSUME NEW t \in Sessions, ses'[t].pc \in {"second", "insert"}
      PROVE  \A row \in ses'[t].rows : row.eligible =>
               \A c \in children' : c.run = ses'[t].run /\ c.symbol = row.symbol =>
                 c.sha = row.payload /\ c.gen.candle <= 2 * ses'[t].day
  BY <1>1, <1>2, <1>5 DEF Candidates, OwnRows
<1>6. ASSUME NEW d \in DOMAIN daily, daily[d] # None
      PROVE  \A row \in daily[d].rows : row.eligible =>
               \A c \in children' : c.run = daily[d].run /\ c.symbol = row.symbol =>
                 c.sha = row.payload /\ c.gen.candle <= 2 * d
  BY <1>1, <1>3, <1>6 DEF Candidates, OwnRows
<1> QED BY <1>1, <1>5, <1>6 DEF Candidates, OwnRows

\* A candidate that is eligible ends before the cutoff of whatever day the broker is
\* in, whatever the main symbol has.
LEMMA EligibleRows ==
  ASSUME Typed, NEW s \in Sessions, NEW d \in 0..Day(MaxTime)
  PROVE  OwnRows(ses[s].run,
                 {[symbol |-> x, payload |-> file[x], eligible |-> Eligible(s, x, d)] : x \in Mine(s)},
                 d)
<1> SUFFICES ASSUME NEW x \in Mine(s), Eligible(s, x, d), NEW c \in children,
                    c.run = ses[s].run, c.symbol = x
             PROVE  c.sha = file[x] /\ c.gen.candle <= 2 * d
  BY DEF OwnRows
<1>1. c.sha = file[x] /\ c.gen.candle = Required(s, d)
  BY DEF Eligible
<1>2. c.gen.candle \in Nat /\ d \in Nat
  <2>1. c.gen \in Generations
    BY DEF Typed, TypeOK, Child
  <2> QED BY <2>1, SymbolRunsOK DEF Generations
<1> DEFINE main == MainCandle(s)
<1>3. c.gen.candle = IF main < 2 * d THEN main ELSE 2 * d
  BY <1>1 DEF Required
<1> HIDE DEF main
<1> QED BY <1>1, <1>2, <1>3

LEMMA DailyLookCandidates ==
  ASSUME Typed, Candidates, NEW s \in Sessions, DailyLook(s)
  PROVE  Candidates'
<1> DEFINE d == ses'[s].day
           new == {[symbol |-> x, payload |-> file[x], eligible |-> Eligible(s, x, d)] : x \in Mine(s)}
<1>1. OnlyOf(s) /\ UNCHANGED <<children, daily>> /\ ses'[s].run = ses[s].run
  BY DailyLookEffect DEF Moves, tables
<1>2. \/ ses'[s].pc = "complete"
      \/ ses'[s].pc = "second" /\ d \in 0..Day(MaxTime) /\ ses'[s].rows = new
  BY DailyLookEffect DEF Moves
<1>3. d \in 0..Day(MaxTime) => OwnRows(ses[s].run, new, d)
  BY EligibleRows
<1> HIDE DEF new
<1>4. ASSUME NEW t \in Sessions, ses'[t].pc \in {"second", "insert"}
      PROVE  OwnRows(ses'[t].run, ses'[t].rows, ses'[t].day)
  <2>1. CASE t = s
    BY <1>1, <1>2, <1>3, <1>4, <2>1
  <2>2. CASE t # s
    BY <1>1, <1>4, <2>2 DEF OnlyOf, Candidates
  <2> QED BY <2>1, <2>2
<1> QED BY <1>1, <1>4 DEF Candidates, OwnRows

LEMMA DailyInsertCandidates ==
  ASSUME Typed, Candidates, NEW s \in Sessions, DailyInsert(s)
  PROVE  Candidates'
<1>1. /\ OnlyOf(s) /\ ses[s].pc = "insert" /\ ses'[s].pc = "complete" /\ UNCHANGED children
      /\ DOMAIN daily' = DOMAIN daily
      /\ \A d \in DOMAIN daily : daily'[d] # daily[d] => d = ses[s].day /\ daily'[d] = Snapshot(s)
  BY DailyInsertEffect DEF Moves
<1>2. Snapshot(s).run = ses[s].run /\ Snapshot(s).rows = ses[s].rows
  BY DEF Snapshot
<1>3. OwnRows(ses[s].run, ses[s].rows, ses[s].day)
  BY <1>1 DEF Candidates
<1>4. ASSUME NEW d \in DOMAIN daily, daily'[d] # None
      PROVE  OwnRows(daily'[d].run, daily'[d].rows, d)
  <2>1. CASE daily'[d] = daily[d]
    BY <1>4, <2>1 DEF Candidates
  <2>2. CASE daily'[d] # daily[d]
    BY <1>1, <1>2, <1>3, <2>2
  <2> QED BY <2>1, <2>2
<1>5. ASSUME NEW t \in Sessions, ses'[t].pc \in {"second", "insert"}
      PROVE  OwnRows(ses'[t].run, ses'[t].rows, ses'[t].day)
  BY <1>1, <1>5 DEF OnlyOf, Candidates
<1> QED BY <1>1, <1>4, <1>5 DEF Candidates, OwnRows

LEMMA NextCandidates ==
  ASSUME Typed, RunsApart, Candidates, [Next]_vars
  PROVE  Candidates'
<1>1. CASE UNCHANGED vars \/ Tick
  BY <1>1 DEF vars, tables, Tick, Candidates, OwnRows
<1>2. ASSUME NEW s \in Sessions, Publish(s) \/ DailyLook(s) \/ DailyInsert(s) PROVE Candidates'
  BY <1>2, PublishCandidates, DailyLookCandidates, DailyInsertCandidates
<1>3. ASSUME NEW s \in Sessions, DailySecond(s) PROVE Candidates'
  <2>1. OnlyOf(s) /\ UNCHANGED <<children, daily>> /\ ses[s].pc = "second" /\ SameRun(s)
    BY <1>3, DailySecondEffect DEF Moves, tables
  <2> QED BY <2>1, CandidatesKept
<1>4. ASSUME NEW s \in Sessions,
             \/ Begin(s) \/ Activate(s) \/ Calculate(s) \/ RunnerFails(s) \/ Save(s) \/ Build(s)
             \/ Register(s)
      PROVE  Candidates'
  <2>1. OnlyOf(s) /\ UNCHANGED <<children, daily>> /\ ses'[s].pc \notin {"second", "insert"}
    <3>1. CASE Begin(s) \/ Activate(s) \/ Calculate(s) \/ RunnerFails(s)
      BY <3>1, BeginEffect, ActivateEffect, CalculateEffect, RunnerFailsEffect
         DEF Advances, Moves, tables
    <3>2. CASE Save(s) \/ Build(s) \/ Register(s)
      BY <3>2, SaveEffect, BuildEffect, RegisterEffect DEF Moves, tables
    <3> QED BY <1>4, <3>1, <3>2
  <2> QED BY <2>1, CandidatesKept
<1>5. ASSUME NEW s \in Sessions,
             \/ PublishChild(s) \/ Reload(s) \/ Finish(s) \/ ShowRun(s) \/ Complete(s)
             \/ Strict(s) \/ Partial(s) \/ End(s) \/ View(s) \/ Interrupt(s) \/ Restart(s)
      PROVE  Candidates'
  <2>1. OnlyOf(s) /\ UNCHANGED <<children, daily>> /\ ses'[s].pc \notin {"second", "insert"}
    <3>1. CASE PublishChild(s) \/ Reload(s) \/ Finish(s) \/ ShowRun(s)
      BY <3>1, PublishChildEffect, ReloadEffect, FinishEffect, ShowRunEffect
         DEF Advances, Moves, tables
    <3>2. CASE Complete(s) \/ Strict(s) \/ Partial(s) \/ End(s)
      BY <3>2, CompleteEffect, StrictEffect, PartialEffect, EndEffect DEF Moves, tables
    <3>3. CASE View(s) \/ Interrupt(s) \/ Restart(s)
      BY <3>3, ViewEffect, InterruptEffect, RestartEffect DEF Typed, Moves, OnlyOf, tables
    <3> QED BY <1>5, <3>1, <3>2, <3>3
  <2> QED BY <2>1, CandidatesKept
<1> QED BY <1>1, <1>2, <1>3, <1>4, <1>5 DEF Next

\* The eligible candidates of a day's snapshot come from the files their run
\* published, before the cutoff; sessions may share symbols and files may fail.
THEOREM EligibleHolds == Spec => []EligibleIsOwn
<1>1. Init => RunsApart /\ Candidates
  BY FreshIsMemory DEF Init, RunsApart, Active, Candidates
<1>2. Candidates => EligibleIsOwn
  BY DEF Candidates, OwnRows, EligibleIsOwn
<1> QED BY <1>1, <1>2, NextApart, NextCandidates, AlwaysTyped, PTL DEF Spec
=============================================================================
