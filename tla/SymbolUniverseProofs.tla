------------------------ MODULE SymbolUniverseProofs ------------------------
(***************************************************************************)
(* Every operation of the symbol universe keeps the store's invariant,     *)
(* whoever calls it and whenever; so the sessions of UniverseRuns do.      *)
(***************************************************************************)
EXTENDS UniverseRuns, SequenceTheorems, WellFoundedInduction, TLAPS

\* A non-empty set of naturals has a least element.
LEMMA Smallest ==
  ASSUME NEW S, S \subseteq Nat, S # {}
  PROVE  \E x \in S : \A y \in S : x <= y
<1>1. PICK x \in S : \A y \in S : ~(<<y, x>> \in OpToRel(<, Nat))
  BY NatLessThanWellFounded, WFMin, Zenon
<1>2. \A y \in S : ~(y < x) BY <1>1 DEF OpToRel
<1>3. \A y \in S : x <= y BY <1>2
<1> QED BY <1>3

\* The first symbol of an order that is in S is in S.
LEMMA FirstIn ==
  ASSUME NEW order \in Seq(Symbols), NEW S
  PROVE  First(order, S) = NoSymbol \/ First(order, S) \in S \cap Symbols
<1> DEFINE At == {i \in DOMAIN order : order[i] \in S}
           Least(i) == \A j \in At : i <= j
<1>1. CASE At = {} BY <1>1 DEF First
<1>2. CASE At # {}
  <2>1. At \subseteq Nat BY LenProperties
  <2>2. \E i \in At : Least(i) BY <1>2, <2>1, Smallest, Zenon
  <2>3. (CHOOSE i \in At : Least(i)) \in At BY <2>2, Zenon
  <2>4. First(order, S) = order[CHOOSE i \in At : Least(i)] BY <1>2 DEF First
  <2>5. \A i \in At : order[i] \in S \cap Symbols BY LenProperties, ElementOfSeq
  <2> QED BY <2>3, <2>4, <2>5, Zenon
<1> QED BY <1>1, <1>2

-----------------------------------------------------------------------------
(* A universe and the copy taken of it.                                    *)

LEMMA OrderOK == ASSUME NEW w \in Universe PROVE w.order \in Seq(Symbols)
  BY UniverseOK DEF Universe

\* What _context_from_conn reads from a well-formed universe is a valid copy.
LEMMA ViewIsValid ==
  ASSUME NEW all, NEW u \in Nat, all[u] \in Universe, Nested(all[u]), NEW shown,
         shown.symbol \in Symbols \cup {NoSymbol}
  PROVE  LET c == View(all, shown, u) IN
         /\ c \in Context /\ c.universe = u
         /\ c.completed \subseteq c.loaded /\ c.loaded \subseteq Range(all[u].order)
         /\ c.active # NoSymbol => c.active \in Options(c.loaded, c.completed)
<1> DEFINE w == all[u]
           options == Options(LoadedIn(w), CompletedIn(w))
           active == IF shown.universe = u /\ shown.symbol \in options
                     THEN shown.symbol ELSE First(w.order, options)
<1>1. /\ LoadedIn(w) \subseteq Symbols /\ CompletedIn(w) \subseteq Symbols
      /\ CompletedIn(w) \subseteq LoadedIn(w) /\ LoadedIn(w) \subseteq Range(w.order)
  BY DEF Nested, LoadedIn, CompletedIn
<1>2. options \subseteq Symbols BY <1>1 DEF Options
<1>3. First(w.order, options) = NoSymbol \/ First(w.order, options) \in options \cap Symbols
  <2> HIDE DEF options
  <2> QED BY FirstIn, OrderOK
<1>4. active \in Symbols \cup {NoSymbol} /\ (active # NoSymbol => active \in options)
  BY <1>2, <1>3
<1>5. w.status \in Statuses /\ w.run \in Nat /\ w.cutoff \in Candles BY DEF Universe
<1>6. View(all, shown, u) =
        [universe |-> u, status |-> w.status, loaded |-> LoadedIn(w),
         completed |-> CompletedIn(w), active |-> active, run |-> w.run, cutoff |-> w.cutoff]
  BY DEF View
<1> HIDE DEF active, options
<1>7. View(all, shown, u) \in Context BY <1>1, <1>4, <1>5, <1>6 DEF Context
<1> QED BY <1>1, <1>4, <1>6, <1>7 DEF options

-----------------------------------------------------------------------------
(* The invariant of the store.                                             *)

StoreInv == TypeOK /\ SymbolsAreNested /\ CopiesAreValid /\ VersionsAgree

\* A universe of the table, as the other lemmas need it.
LEMMA Row ==
  ASSUME StoreInv, NEW u \in DOMAIN universes
  PROVE  /\ universes[u] \in Universe /\ Nested(universes[u]) /\ u \in 1..Len(universes)
         /\ u \in Nat /\ u # 0
<1>1. universes \in Seq(Universe) BY DEF StoreInv, TypeOK
<1>2. u \in 1..Len(universes) BY <1>1, LenProperties
<1> QED BY <1>1, <1>2, ElementOfSeq, LenProperties DEF StoreInv, SymbolsAreNested

\* Taking a copy of universe u after a step that keeps the tables well formed and
\* no universe's configuration.
LEMMA ShowKeeps ==
  ASSUME StoreInv, NEW s \in Sessions, NEW u \in DOMAIN universes', Show(s, u),
         universes' \in Seq(Universe),
         display' \in [universe : 0..Len(universes'), symbol : Symbols \cup {NoSymbol},
                       version : Nat],
         \A v \in DOMAIN universes' : Nested(universes'[v]),
         \A v \in DOMAIN universes :
            v \in DOMAIN universes' /\ universes'[v].order = universes[v].order,
         VersionsAgree'
  PROVE  StoreInv'
<1> DEFINE c == View(universes', display', u)
<1>0. u \in 1..Len(universes') /\ u \in Nat /\ u # 0 BY LenProperties
<1>1. universes'[u] \in Universe /\ Nested(universes'[u]) BY <1>0, ElementOfSeq
<1>2. display'.symbol \in Symbols \cup {NoSymbol} OBVIOUS
<1>3. /\ c \in Context /\ c.universe = u
      /\ c.completed \subseteq c.loaded /\ c.loaded \subseteq Range(universes'[u].order)
      /\ c.active # NoSymbol => c.active \in Options(c.loaded, c.completed)
  BY <1>0, <1>1, <1>2, ViewIsValid
<1>4. context' = [context EXCEPT ![s] = c] BY DEF Show
<1> HIDE DEF c
<1>5. context \in [Sessions -> Context] BY DEF StoreInv, TypeOK
<1>6. TypeOK' BY <1>3, <1>4, <1>5 DEF TypeOK
<1>7. SymbolsAreNested' BY DEF SymbolsAreNested
<1>8. CopiesAreValid'
  <2> SUFFICES ASSUME NEW r \in Sessions
               PROVE  /\ context'[r].completed \subseteq context'[r].loaded
                      /\ context'[r].universe # 0 =>
                           /\ context'[r].universe \in DOMAIN universes'
                           /\ context'[r].loaded \subseteq Range(universes'[context'[r].universe].order)
                      /\ context'[r].active # NoSymbol =>
                           context'[r].active \in Options(context'[r].loaded, context'[r].completed)
    BY DEF CopiesAreValid, Configured
  <2>1. CASE r = s BY <2>1, <1>3, <1>4, <1>5
  <2>2. CASE r # s
    <3>1. context'[r] = context[r] BY <2>2, <1>4, <1>5
    <3>2. /\ context[r].completed \subseteq context[r].loaded
          /\ context[r].universe # 0 =>
               /\ context[r].universe \in DOMAIN universes
               /\ context[r].loaded \subseteq Range(universes[context[r].universe].order)
          /\ context[r].active # NoSymbol =>
               context[r].active \in Options(context[r].loaded, context[r].completed)
      BY DEF StoreInv, CopiesAreValid, Configured
    <3> QED BY <3>1, <3>2, Zenon
  <2> QED BY <2>1, <2>2
<1> QED BY <1>6, <1>7, <1>8 DEF StoreInv

\* One universe is rewritten; the display row either stays, and so does the
\* universe's version, or both get the same.
LEMMA RewriteKeeps ==
  ASSUME StoreInv, NEW s \in Sessions, NEW u \in DOMAIN universes, NEW w \in Universe,
         Nested(w), w.order = universes[u].order,
         universes' = [universes EXCEPT ![u] = w],
         \/ display' = display /\ w.version = universes[u].version
         \/ \E x \in Symbols \cup {NoSymbol} :
              display' = [universe |-> u, symbol |-> x, version |-> w.version],
         Show(s, u)
  PROVE  StoreInv'
<1>0. universes \in Seq(Universe) /\ u \in 1..Len(universes) /\ u \in Nat /\ u # 0
      /\ Len(universes) \in Nat /\ DOMAIN universes = 1..Len(universes)
  BY Row, LenProperties DEF StoreInv, TypeOK
<1>1. /\ universes' \in Seq(Universe) /\ Len(universes') = Len(universes)
      /\ DOMAIN universes' = DOMAIN universes
      /\ universes'[u] = w
      /\ \A v \in DOMAIN universes : v # u => universes'[v] = universes[v]
  BY <1>0, ExceptSeq, LenProperties
<1>2. w.version \in Nat BY DEF Universe
<1>3. display \in [universe : 0..Len(universes), symbol : Symbols \cup {NoSymbol}, version : Nat]
      /\ (display.universe # 0 => display.version = universes[display.universe].version)
  BY DEF StoreInv, TypeOK, VersionsAgree
<1>4. display' \in [universe : 0..Len(universes'), symbol : Symbols \cup {NoSymbol}, version : Nat]
  BY <1>0, <1>1, <1>2, <1>3
<1>5. \A v \in DOMAIN universes' : Nested(universes'[v])
  BY <1>1 DEF StoreInv, SymbolsAreNested
<1>6. \A v \in DOMAIN universes :
        v \in DOMAIN universes' /\ universes'[v].order = universes[v].order
  BY <1>1
<1>7. VersionsAgree'
  <2>1. CASE display' = display /\ w.version = universes[u].version
    BY <2>1, <1>0, <1>1, <1>3 DEF VersionsAgree
  <2>2. CASE \E x \in Symbols \cup {NoSymbol} :
               display' = [universe |-> u, symbol |-> x, version |-> w.version]
    BY <2>2, <1>1 DEF VersionsAgree
  <2> QED BY <2>1, <2>2
<1> QED BY <1>1, <1>4, <1>5, <1>6, <1>7, ShowKeeps

-----------------------------------------------------------------------------
(* Each operation keeps it.                                                *)

LEMMA ConfigureKeeps ==
  ASSUME StoreInv, NEW s \in Sessions, NEW order \in Configurations, ConfigureUniverse(s, order)
  PROVE  StoreInv'
<1>0. /\ universes \in Seq(Universe) /\ Len(universes) \in Nat
      /\ DOMAIN universes = 1..Len(universes)
      /\ display \in [universe : 0..Len(universes), symbol : Symbols \cup {NoSymbol}, version : Nat]
      /\ (display.universe # 0 => display.version = universes[display.universe].version)
  BY LenProperties DEF StoreInv, TypeOK, VersionsAgree
<1>1. CASE Reuse(s, order)
  <2>1. PICK u \in DOMAIN universes : UNCHANGED store /\ Show(s, u)
    BY <1>1 DEF Reuse, Open
  <2>2. /\ universes' = universes /\ display' = display /\ VersionsAgree'
        /\ \A v \in DOMAIN universes' : Nested(universes'[v])
    BY <2>1 DEF store, StoreInv, VersionsAgree, SymbolsAreNested
  <2> QED BY <1>0, <2>1, <2>2, ShowKeeps
<1>2. CASE Create(s, order)
  <2> DEFINE w == [order |-> order, status |-> "CONFIGURED", version |-> 1, run |-> 0,
                   cutoff |-> 0, members |-> [x \in Symbols |-> NewMember]]
  <2>1. w \in Universe /\ Nested(w)
    BY DEF Universe, Statuses, Candles, NewMember, Member, Nested
  <2>2. universes' = Append(universes, w) /\ display' = display /\ Show(s, Len(universes) + 1)
    BY <1>2 DEF Create
  <2> HIDE DEF w
  <2>3. /\ universes' \in Seq(Universe) /\ Len(universes') = Len(universes) + 1
        /\ DOMAIN universes' = 1..(Len(universes) + 1)
        /\ universes'[Len(universes) + 1] = w
        /\ \A v \in DOMAIN universes : universes'[v] = universes[v]
    BY <1>0, <2>1, <2>2
  <2>4. \A v \in DOMAIN universes' : Nested(universes'[v])
    BY <1>0, <2>1, <2>3 DEF StoreInv, SymbolsAreNested
  <2>5. \A v \in DOMAIN universes :
          v \in DOMAIN universes' /\ universes'[v].order = universes[v].order
    BY <1>0, <2>3
  <2>6. display' \in [universe : 0..Len(universes'), symbol : Symbols \cup {NoSymbol}, version : Nat]
    BY <1>0, <2>2, <2>3
  <2>7. VersionsAgree' BY <1>0, <2>2, <2>3 DEF VersionsAgree
  <2>8. Len(universes) + 1 \in DOMAIN universes' BY <1>0, <2>3
  <2> QED BY <2>2, <2>3, <2>4, <2>5, <2>6, <2>7, <2>8, ShowKeeps
<1> QED BY <1>1, <1>2 DEF ConfigureUniverse

LEMMA MarkKeeps ==
  ASSUME StoreInv, NEW s \in Sessions, NEW u, NEW status \in Statuses, Mark(s, u, status)
  PROVE  StoreInv'
<1> DEFINE w == [universes[u] EXCEPT !.status = status]
<1>1. /\ u \in DOMAIN universes /\ Show(s, u) /\ display' = display
      /\ universes' = [universes EXCEPT ![u] = w]
  BY DEF Mark
<1>2. universes[u] \in Universe /\ Nested(universes[u]) BY <1>1, Row
<1>3. w \in Universe /\ Nested(w) /\ w.order = universes[u].order /\ w.version = universes[u].version
  BY <1>2 DEF Universe, Nested
<1> QED BY <1>1, <1>3, RewriteKeeps

LEMMA PublishLoadedKeeps ==
  ASSUME StoreInv, NEW s \in Sessions, NEW u, NEW got, NEW failed,
         \A x \in DOMAIN got : got[x] \in Frames, PublishLoaded(s, u, got, failed)
  PROVE  StoreInv'
<1> DEFINE row == universes[u]
           after(x) == IF x \in DOMAIN got THEN LoadedMember(row.members[x], got[x])
                       ELSE row.members[x]
           members == [x \in Symbols |->
                         IF x \in failed \cap Configured(u) THEN FailedMember(after(x)) ELSE after(x)]
           w == [row EXCEPT !.status = "LOADED", !.members = members]
<1>1. /\ u \in DOMAIN universes /\ Show(s, u) /\ display' = display
      /\ DOMAIN got \subseteq Range(row.order)
  BY DEF PublishLoaded, Configured
<1>2. row \in Universe /\ Nested(row) BY <1>1, Row
<1>3. universes' = [universes EXCEPT ![u] = w] BY <1>1, <1>2 DEF PublishLoaded, Universe
<1>4. ASSUME NEW x \in Symbols
      PROVE  /\ members[x] \in Member
             /\ members[x].loaded => x \in Range(row.order)
             /\ members[x].completed => members[x].loaded
             /\ members[x].failed => ~members[x].loaded
  <2>1. /\ row.members[x] \in Member
        /\ row.members[x].loaded => x \in Range(row.order)
        /\ row.members[x].completed => row.members[x].loaded
        /\ row.members[x].failed => ~row.members[x].loaded
    BY <1>2 DEF Universe, Nested
  <2>2. x \in DOMAIN got => got[x] \in Frames /\ got[x].candle \in Candles
    BY DEF Frames, Candles
  <2>3. /\ after(x) \in Member
        /\ after(x).loaded => x \in Range(row.order)
        /\ after(x).completed => after(x).loaded
        /\ after(x).failed => ~after(x).loaded
    BY <1>1, <2>1, <2>2 DEF LoadedMember, Member
  <2> HIDE DEF after
  <2>4. members[x] = IF x \in failed \cap Configured(u) THEN FailedMember(after(x)) ELSE after(x)
    OBVIOUS
  <2> HIDE DEF members
  <2> QED BY <2>3, <2>4 DEF FailedMember, Member
<1>5. members \in [Symbols -> Member] BY <1>4
<1> HIDE DEF members
<1>6. w \in Universe /\ w.order = row.order /\ w.version = row.version /\ w.members = members
  BY <1>2, <1>5 DEF Universe, Statuses
<1> HIDE DEF w, row
<1>7. Nested(w) BY <1>4, <1>6 DEF Nested
<1> QED BY <1>1, <1>3, <1>6, <1>7, RewriteKeeps DEF row

LEMMA PublishCompletedKeeps ==
  ASSUME StoreInv, NEW s \in Sessions, NEW u, NEW id \in Nat, NEW evidence,
         NEW cutoff \in Candles,
         \A x \in DOMAIN evidence :
           evidence[x].candle \in Candles /\ evidence[x].hash \in Frames \cup {NoFrame},
         PublishCompleted(s, u, id, evidence, cutoff)
  PROVE  StoreInv'
<1> DEFINE row == universes[u]
           members == [x \in Symbols |-> IF x \in DOMAIN evidence
                         THEN CompletedMember(row.members[x], evidence[x]) ELSE row.members[x]]
           published == [row EXCEPT !.status = "PUBLISHED", !.run = id, !.cutoff = cutoff,
                                    !.members = members]
           first == First(published.order, CompletedIn(published))
           moved == [published EXCEPT !.version = @ + 1]
<1>1. /\ u \in DOMAIN universes /\ Show(s, u)
      /\ \A x \in DOMAIN evidence : Match(row.members[x], evidence[x])
  BY DEF PublishCompleted
<1>2. row \in Universe /\ Nested(row) BY <1>1, Row
<1>3. \/ universes' = [universes EXCEPT ![u] = published] /\ display' = display
      \/ /\ universes' = [universes EXCEPT ![u] = moved]
         /\ display' = [universe |-> u, symbol |-> first, version |-> published.version + 1]
  BY Zenon DEF PublishCompleted
<1>4. ASSUME NEW x \in Symbols
      PROVE  /\ members[x] \in Member
             /\ members[x].loaded => x \in Range(row.order)
             /\ members[x].completed => members[x].loaded
             /\ members[x].failed => ~members[x].loaded
  <2>1. /\ row.members[x] \in Member
        /\ row.members[x].loaded => x \in Range(row.order)
        /\ row.members[x].completed => row.members[x].loaded
        /\ row.members[x].failed => ~row.members[x].loaded
    BY <1>2 DEF Universe, Nested
  <2>2. x \in DOMAIN evidence => row.members[x].loaded BY <1>1 DEF Match
  <2>3. members[x] = IF x \in DOMAIN evidence
                     THEN CompletedMember(row.members[x], evidence[x]) ELSE row.members[x]
    OBVIOUS
  <2> HIDE DEF members, row
  <2> QED BY <2>1, <2>2, <2>3 DEF CompletedMember, Member
<1>5. members \in [Symbols -> Member] BY <1>4
<1> HIDE DEF members
<1>6. /\ published \in Universe /\ published.order = row.order
      /\ published.version = row.version /\ published.members = members /\ row.version \in Nat
  BY <1>2, <1>5 DEF Universe, Statuses
<1> HIDE DEF published
<1>7. /\ moved \in Universe /\ moved.order = row.order
      /\ moved.version = published.version + 1 /\ moved.members = members
  BY <1>6 DEF Universe
<1> HIDE DEF moved, row
<1>8. Nested(published) /\ Nested(moved) BY <1>4, <1>6, <1>7 DEF Nested
<1>9. first \in Symbols \cup {NoSymbol} BY <1>6, FirstIn, OrderOK
<1> HIDE DEF first
<1>10. CASE universes' = [universes EXCEPT ![u] = published] /\ display' = display
  BY <1>1, <1>6, <1>8, <1>10, RewriteKeeps DEF row
<1>11. CASE /\ universes' = [universes EXCEPT ![u] = moved]
            /\ display' = [universe |-> u, symbol |-> first, version |-> published.version + 1]
  <2>1. \E x \in Symbols \cup {NoSymbol} :
          display' = [universe |-> u, symbol |-> x, version |-> moved.version]
    BY <1>7, <1>9, <1>11
  <2> QED BY <1>1, <1>7, <1>8, <1>11, <2>1, RewriteKeeps DEF row
<1> QED BY <1>3, <1>10, <1>11

LEMMA SelectKeeps ==
  ASSUME StoreInv, NEW s \in Sessions, NEW x \in Symbols, SelectDisplay(s, x)
  PROVE  StoreInv'
<1>1. PICK u \in DOMAIN universes : Chosen(u, x) /\ Show(s, u) BY DEF SelectDisplay
<1> DEFINE w == [universes[u] EXCEPT !.version = @ + 1]
<1>2. universes[u] \in Universe /\ Nested(universes[u]) BY Row
<1>3. /\ w \in Universe /\ Nested(w) /\ w.order = universes[u].order
      /\ w.version = universes[u].version + 1
  BY <1>2 DEF Universe, Nested
<1>4. /\ universes' = [universes EXCEPT ![u] = w]
      /\ display' = [universe |-> u, symbol |-> x, version |-> w.version]
  BY <1>1, <1>3 DEF Chosen
<1> HIDE DEF w
<1> QED BY <1>1, <1>3, <1>4, RewriteKeeps

LEMMA RestoreKeeps ==
  ASSUME StoreInv, NEW s \in Sessions, Restore(s)
  PROVE  StoreInv'
<1>1. PICK u \in DOMAIN universes : UNCHANGED store /\ Show(s, u) BY DEF Restore
<1>2. universes' = universes /\ display' = display BY <1>1 DEF store
<1>3. /\ universes' \in Seq(Universe)
      /\ display' \in [universe : 0..Len(universes'), symbol : Symbols \cup {NoSymbol}, version : Nat]
      /\ \A v \in DOMAIN universes' : Nested(universes'[v])
      /\ VersionsAgree'
  BY <1>2 DEF StoreInv, TypeOK, SymbolsAreNested, VersionsAgree
<1> QED BY <1>1, <1>2, <1>3, ShowKeeps

LEMMA UnchangedKeeps == ASSUME StoreInv, UNCHANGED universeVars PROVE StoreInv'
  BY DEF StoreInv, universeVars, TypeOK, SymbolsAreNested, CopiesAreValid, VersionsAgree, Configured

-----------------------------------------------------------------------------
(* The sessions only change the store through its operations.              *)

Inv == StoreInv /\ SessionsOK

LEMMA InitInv == ASSUME RInit PROVE Inv
<1>1. TypeOK
  BY DEF RInit, Init, TypeOK, NoContext, Context, Candles
<1>2. SymbolsAreNested /\ CopiesAreValid /\ VersionsAgree
  BY DEF RInit, Init, SymbolsAreNested, CopiesAreValid, VersionsAgree, NoContext
<1>3. SessionsOK
  BY DEF RInit, SessionsOK, Places, Candles
<1> QED BY <1>1, <1>2, <1>3 DEF Inv, StoreInv

\* Entering and leaving the steps of an operation.
LEMMA PlaceKeeps ==
  ASSUME SessionsOK, NEW s \in Sessions, NEW to \in Places \ {"recorded"},
         pc' = [pc EXCEPT ![s] = to], UNCHANGED <<now, frames, target, run, runs>>
  PROVE  SessionsOK'
  BY DEF SessionsOK

\* A new identity is appended; the others keep their place.
LEMMA NewRunKeeps ==
  ASSUME Inv, NEW s \in Sessions, NEW kind \in {"full", "quick", "refresh"},
         NEW X \in SUBSET Symbols, NEW cutoff \in Candles, NewRun(s, kind, X, cutoff)
  PROVE  /\ runs' \in Seq(Run) /\ Len(runs) \in Nat
         /\ Len(runs') = Len(runs) + 1 /\ DOMAIN runs' = 1..Len(runs')
         /\ DOMAIN runs = 1..Len(runs)
<1> DEFINE calculated == [x \in Held(s, X) |-> frames[s][x]]
           r == [kind |-> kind, universe |-> Mine(s), cutoff |-> cutoff, frames |-> calculated]
<1>1. Held(s, X) \in SUBSET Symbols /\ calculated \in [Held(s, X) -> Frames]
  BY DEF Held, Inv, SessionsOK
<1>2. Mine(s) \in Nat BY DEF Mine, Inv, StoreInv, TypeOK, Context
<1>3. calculated \in UNION {[Y -> Frames] : Y \in SUBSET Symbols} BY <1>1
<1>4. runs' = Append(runs, r) BY DEF NewRun
<1> HIDE DEF calculated
<1>5. r \in Run BY <1>2, <1>3 DEF Run
<1> HIDE DEF r
<1>6. runs \in Seq(Run) BY DEF Inv, SessionsOK
<1> QED BY <1>4, <1>5, <1>6

LEMMA Mine_ == ASSUME Inv, NEW s \in Sessions PROVE context[s] \in Context /\ context[s].loaded \subseteq Symbols
  BY DEF Inv, StoreInv, TypeOK, Context

LEMMA StepInv == ASSUME Inv, [RNext]_vars PROVE Inv'
<1> USE DEF Inv
<1>1. ASSUME NEW s \in Sessions, StartLoad(s) PROVE Inv'
  BY <1>1, ConfigureKeeps, PlaceKeeps DEF StartLoad, Click, sessionVars, Places
<1>2. ASSUME NEW s \in Sessions, MarkLoading(s) PROVE Inv'
  BY <1>2, MarkKeeps, PlaceKeeps DEF MarkLoading, Go, sessionVars, Places, Statuses
<1>3. ASSUME NEW s \in Sessions, FinishLoad(s) PROVE Inv'
  <2>1. \E requested \in SUBSET Configured(Mine(s)) \ {{}} : \E got \in SUBSET requested :
          \E fetched \in [got -> {f \in Frames : f.candle <= now}] :
            /\ PublishLoaded(s, Mine(s), fetched, requested \ got)
            /\ frames' = [frames EXCEPT ![s] =
                            [x \in Symbols |-> IF x \in got THEN fetched[x] ELSE @[x]]]
    BY <1>3 DEF FinishLoad
  <2>2. PICK requested \in SUBSET Configured(Mine(s)) \ {{}} : \E got \in SUBSET requested :
          \E fetched \in [got -> {f \in Frames : f.candle <= now}] :
            /\ PublishLoaded(s, Mine(s), fetched, requested \ got)
            /\ frames' = [frames EXCEPT ![s] =
                            [x \in Symbols |-> IF x \in got THEN fetched[x] ELSE @[x]]]
    BY <2>1
  <2>3. PICK got \in SUBSET requested :
          \E fetched \in [got -> {f \in Frames : f.candle <= now}] :
            /\ PublishLoaded(s, Mine(s), fetched, requested \ got)
            /\ frames' = [frames EXCEPT ![s] =
                            [x \in Symbols |-> IF x \in got THEN fetched[x] ELSE @[x]]]
    BY <2>2
  <2>8. PICK fetched \in [got -> {f \in Frames : f.candle <= now}] :
            /\ PublishLoaded(s, Mine(s), fetched, requested \ got)
            /\ frames' = [frames EXCEPT ![s] =
                            [x \in Symbols |-> IF x \in got THEN fetched[x] ELSE @[x]]]
    BY <2>3
  <2>4. universes[Mine(s)].cutoff \in Candles
    BY <2>8, Row DEF PublishLoaded, Universe
  <2>5. StoreInv' BY <2>8, PublishLoadedKeeps
  <2>6. frames' \in [Sessions -> [Symbols -> Frames \cup {NoFrame}]]
    BY <2>8 DEF SessionsOK
  <2>7. target' \in [Sessions -> Candles] BY <1>3, <2>4 DEF FinishLoad, SessionsOK
  <2> QED BY <1>3, <2>5, <2>6, <2>7 DEF FinishLoad, Go, SessionsOK, Places
<1>4. ASSUME NEW s \in Sessions, StartActivate(s) PROVE Inv'
  BY <1>4, ConfigureKeeps, PlaceKeeps DEF StartActivate, Click, sessionVars, Places
<1>5. ASSUME NEW s \in Sessions, PublishHeld(s) PROVE StoreInv'
  <2> DEFINE held == Held(s, Configured(Mine(s)))
             got == [x \in held |-> frames[s][x]]
             failed == Configured(Mine(s)) \ held
  <2>1. PublishLoaded(s, Mine(s), got, failed) BY <1>5 DEF PublishHeld
  <2>2. Configured(Mine(s)) \subseteq Symbols
    <3>1. universes[Mine(s)] \in Universe BY <2>1, Row DEF PublishLoaded
    <3>2. universes[Mine(s)].order \in Seq(Symbols) BY <3>1, OrderOK
    <3> QED BY <3>2, LenProperties, ElementOfSeq DEF Configured, Range
  <2>3. \A x \in DOMAIN got : got[x] \in Frames BY <2>2 DEF Held, SessionsOK
  <2> HIDE DEF got, failed
  <2> QED BY <2>1, <2>3, PublishLoadedKeeps
<1>6. ASSUME NEW s \in Sessions, FinishActivate(s) PROVE Inv'
  BY <1>5, <1>6, PlaceKeeps DEF FinishActivate, Go, sessionVars, Places
<1>7. ASSUME NEW s \in Sessions, Check(s) PROVE Inv'
  BY <1>7, UnchangedKeeps, PlaceKeeps DEF Check, Click, sessionVars, Places
<1>8. ASSUME NEW s \in Sessions, MarkCalculating(s) PROVE Inv'
  BY <1>8, MarkKeeps, PlaceKeeps DEF MarkCalculating, Go, sessionVars, Places, Statuses
<1>9. ASSUME NEW s \in Sessions, Record(s) PROVE Inv'
  <2>1. (IF target[s] = 0 THEN now ELSE target[s]) \in Candles BY DEF SessionsOK, Candles
  <2>2. /\ runs' \in Seq(Run) /\ Len(runs) \in Nat /\ Len(runs') = Len(runs) + 1
        /\ DOMAIN runs' = 1..Len(runs') /\ DOMAIN runs = 1..Len(runs)
    BY <1>9, <2>1, Mine_, NewRunKeeps DEF Record
  <2>3. StoreInv' BY <1>9, UnchangedKeeps DEF Record
  <2> QED BY <1>9, <2>2, <2>3 DEF Record, Go, SessionsOK, Places
<1>10. ASSUME NEW s \in Sessions, Publish(s) PROVE Inv'
  <2> DEFINE X == context[s].loaded
             evidence == [x \in X |-> [candle |-> frames[s][x].candle, hash |-> frames[s][x]]]
  <2>1. X \subseteq Symbols BY Mine_
  <2>2. run[s] \in DOMAIN runs /\ run[s] \in Nat BY <1>10 DEF Publish, Go, SessionsOK
  <2>3. runs[run[s]].cutoff \in Candles
    <3>1. runs[run[s]] \in Run BY <2>2, LenProperties, ElementOfSeq DEF SessionsOK
    <3> QED BY <3>1 DEF Run
  <2>4. \A x \in X : frames[s][x] \in Frames BY <1>10, <2>1 DEF Publish, SameCutoff, SessionsOK
  <2>5. \A x \in DOMAIN evidence :
          evidence[x].candle \in Candles /\ evidence[x].hash \in Frames \cup {NoFrame}
    BY <2>4 DEF Frames, Candles
  <2>6. PublishCompleted(s, Mine(s), run[s], evidence, runs[run[s]].cutoff)
    BY <1>10 DEF Publish
  <2> HIDE DEF evidence
  <2>7. StoreInv' BY <2>2, <2>3, <2>5, <2>6, PublishCompletedKeeps
  <2> QED BY <1>10, <2>7 DEF Publish, Go, SessionsOK, Places
<1>11. ASSUME NEW s \in Sessions, GiveUp(s) PROVE Inv'
  BY <1>11, UnchangedKeeps DEF GiveUp, Go, SessionsOK, Places
<1>12. ASSUME NEW s \in Sessions, SuperQuick(s) PROVE Inv'
  <2>0. SuperQuick(s) BY <1>12
  <2>a. PICK held \in SUBSET Held(s, Symbols) : \E cutoff \in {frames[s][x].candle : x \in held} :
            /\ NewRun(s, "quick", held, cutoff)
            /\ \E X \in SUBSET held \ {{}} :
                 PublishCompleted(s, Mine(s), Len(runs) + 1,
                   [x \in X |-> [candle |-> cutoff, hash |-> NoFrame]], cutoff)
    BY <2>0, Zenon DEF SuperQuick
  <2>1. PICK cutoff \in {frames[s][x].candle : x \in held} :
          /\ NewRun(s, "quick", held, cutoff)
          /\ \E X \in SUBSET held \ {{}} :
               PublishCompleted(s, Mine(s), Len(runs) + 1,
                 [x \in X |-> [candle |-> cutoff, hash |-> NoFrame]], cutoff)
    BY <2>a
  <2>2. held \in SUBSET Symbols /\ \A x \in held : frames[s][x] \in Frames
    BY Mine_ DEF Held, SessionsOK
  <2>3. cutoff \in Candles BY <2>2 DEF Frames, Candles
  <2>4. PICK X \in SUBSET held :
          PublishCompleted(s, Mine(s), Len(runs) + 1,
            [x \in X |-> [candle |-> cutoff, hash |-> NoFrame]], cutoff)
    BY <2>1
  <2>5. /\ runs' \in Seq(Run) /\ Len(runs) \in Nat /\ Len(runs') = Len(runs) + 1
        /\ DOMAIN runs' = 1..Len(runs') /\ DOMAIN runs = 1..Len(runs)
    BY <2>1, <2>2, <2>3, NewRunKeeps
  <2> DEFINE evidence == [x \in X |-> [candle |-> cutoff, hash |-> NoFrame]]
  <2>6. \A x \in DOMAIN evidence :
          evidence[x].candle \in Candles /\ evidence[x].hash \in Frames \cup {NoFrame}
    BY <2>3
  <2>7. PublishCompleted(s, Mine(s), Len(runs) + 1, evidence, cutoff) BY <2>4
  <2> HIDE DEF evidence
  <2>8. StoreInv' BY <2>3, <2>5, <2>6, <2>7, PublishCompletedKeeps
  <2> QED BY <1>12, <2>5, <2>8 DEF SuperQuick, Click, SessionsOK, Places
<1>13. ASSUME NEW s \in Sessions, StartRefresh(s) PROVE Inv'
  <2>1. StoreInv' BY <1>13, ConfigureKeeps, UnchangedKeeps DEF StartRefresh
  <2> QED BY <1>13, <2>1, PlaceKeeps DEF StartRefresh, Click, sessionVars, Places
<1>14. ASSUME NEW s \in Sessions, RefreshLoaded(s) PROVE Inv'
  BY <1>5, <1>14, PlaceKeeps DEF RefreshLoaded, Go, sessionVars, Places
<1>15. ASSUME NEW s \in Sessions, RefreshCalculating(s) PROVE Inv'
  BY <1>15, MarkKeeps, PlaceKeeps DEF RefreshCalculating, Go, sessionVars, Places, Statuses
<1>16. ASSUME NEW s \in Sessions, RefreshPublish(s) PROVE Inv'
  <2>1. PICK cutoff \in Cutoffs :
          LET X == {x \in Held(s, context[s].loaded) : frames[s][x].candle = cutoff} IN
          /\ NewRun(s, "refresh", X, cutoff)
          /\ PublishCompleted(s, Mine(s), Len(runs) + 1,
               [x \in X |-> [candle |-> cutoff, hash |-> frames[s][x]]], cutoff)
    BY <1>16 DEF RefreshPublish
  <2> DEFINE X == {x \in Held(s, context[s].loaded) : frames[s][x].candle = cutoff}
             evidence == [x \in X |-> [candle |-> cutoff, hash |-> frames[s][x]]]
  <2>2. X \in SUBSET Symbols /\ \A x \in X : frames[s][x] \in Frames
    BY Mine_ DEF Held, SessionsOK
  <2>3. /\ NewRun(s, "refresh", X, cutoff)
        /\ PublishCompleted(s, Mine(s), Len(runs) + 1, evidence, cutoff)
    BY <2>1
  <2> HIDE DEF X
  <2>4. cutoff \in Candles BY DEF Candles
  <2>5. /\ runs' \in Seq(Run) /\ Len(runs) \in Nat /\ Len(runs') = Len(runs) + 1
        /\ DOMAIN runs' = 1..Len(runs') /\ DOMAIN runs = 1..Len(runs)
    BY <2>2, <2>3, <2>4, NewRunKeeps
  <2>6. \A x \in DOMAIN evidence :
          evidence[x].candle \in Candles /\ evidence[x].hash \in Frames \cup {NoFrame}
    BY <2>2, <2>4
  <2> HIDE DEF evidence
  <2>7. StoreInv' BY <2>3, <2>4, <2>5, <2>6, PublishCompletedKeeps
  <2> QED BY <1>16, <2>5, <2>7 DEF RefreshPublish, Go, SessionsOK, Places
<1>17. ASSUME NEW s \in Sessions, Choose(s) PROVE Inv'
  <2>1. StoreInv' BY <1>17, RestoreKeeps, SelectKeeps DEF Choose
  <2> QED BY <1>17, <2>1, PlaceKeeps DEF Choose, Click, sessionVars, Places
<1>18. CASE Tick
  BY <1>18, UnchangedKeeps DEF Tick, sessionVars, SessionsOK
<1>19. CASE UNCHANGED vars
  BY <1>19, UnchangedKeeps DEF vars, sessionVars, universeVars, SessionsOK
<1> QED
  BY <1>1, <1>2, <1>3, <1>4, <1>6, <1>7, <1>8, <1>9, <1>10, <1>11, <1>12, <1>13, <1>14,
     <1>15, <1>16, <1>17, <1>18, <1>19 DEF RNext

THEOREM AlwaysInv == Spec => []Inv
<1>1. RInit => Inv BY InitInv
<1>2. Inv /\ [RNext]_vars => Inv' BY StepInv
<1> QED BY <1>1, <1>2, PTL DEF Spec

\* The tables, the session copies and the sessions' own variables keep their types.
THEOREM TypesHold == Spec => []TypeOK
<1>1. Inv => TypeOK BY DEF Inv, StoreInv
<1> QED BY <1>1, AlwaysInv, PTL

\* A session that is about to publish names a run that was recorded.
THEOREM SessionsHold == Spec => []SessionsOK
<1>1. Inv => SessionsOK BY DEF Inv
<1> QED BY <1>1, AlwaysInv, PTL

\* Whatever the sessions do, and in whatever order, no universe ever calls a symbol
\* completed that is not loaded, or loaded that is not configured or has failed.
THEOREM SymbolsStayNested == Spec => []SymbolsAreNested
<1>1. Inv => SymbolsAreNested BY DEF Inv, StoreInv
<1> QED BY <1>1, AlwaysInv, PTL

\* Every copy a session keeps passes validate_symbol_context, however stale it is.
THEOREM CopiesStayValid == Spec => []CopiesAreValid
<1>1. Inv => CopiesAreValid BY DEF Inv, StoreInv
<1> QED BY <1>1, AlwaysInv, PTL

\* The display row and its universe always carry the same selection_version.
THEOREM VersionsStayEqual == Spec => []VersionsAgree
<1>1. Inv => VersionsAgree BY DEF Inv, StoreInv
<1> QED BY <1>1, AlwaysInv, PTL
-----------------------------------------------------------------------------
(* What is published is what was calculated. Inv is already known to hold. *)

\* Universe u, whose row is w, shows the frames of the run r.
Shows(w, u, r) ==
  /\ r.universe = u
  /\ r.kind # "quick" => \A x \in DOMAIN r.frames :
       w.members[x].completed /\ w.members[x].hash = r.frames[x] /\ w.members[x].candle = w.cutoff

\* A session that has recorded its run still holds the frames and the copy it used.
Recorded(s) ==
  /\ run[s] \in DOMAIN runs /\ runs[run[s]].universe = Mine(s)
  /\ runs[run[s]].frames = [x \in Held(s, context[s].loaded) |-> frames[s][x]]

Calculated ==
  /\ \A u \in DOMAIN universes : universes[u].status = "PUBLISHED" =>
       universes[u].run \in DOMAIN runs /\ Shows(universes[u], u, runs[universes[u].run])
  /\ \A s \in Sessions : pc[s] = "recorded" => Recorded(s)

\* Runs are only added, a published row stays as it is or shows its run, and a
\* session that waits to publish keeps what it recorded.
LEMMA CalculatedKept ==
  ASSUME Calculated,
         \A i \in DOMAIN runs : i \in DOMAIN runs' /\ runs'[i] = runs[i],
         \A u \in DOMAIN universes' : universes'[u].status = "PUBLISHED" =>
            \/ /\ u \in DOMAIN universes /\ universes[u].status = "PUBLISHED"
               /\ universes'[u].run = universes[u].run
               /\ universes'[u].cutoff = universes[u].cutoff
               /\ universes'[u].members = universes[u].members
            \/ /\ universes'[u].run \in DOMAIN runs'
               /\ Shows(universes'[u], u, runs'[universes'[u].run]),
         \A r \in Sessions : pc'[r] = "recorded" =>
            \/ /\ pc[r] = "recorded" /\ run'[r] = run[r]
               /\ context'[r] = context[r] /\ frames'[r] = frames[r]
            \/ Recorded(r)'
  PROVE  Calculated'
<1>1. ASSUME NEW u \in DOMAIN universes', universes'[u].status = "PUBLISHED"
      PROVE  /\ universes'[u].run \in DOMAIN runs'
             /\ Shows(universes'[u], u, runs'[universes'[u].run])
  <2>1. CASE /\ u \in DOMAIN universes /\ universes[u].status = "PUBLISHED"
             /\ universes'[u].run = universes[u].run
             /\ universes'[u].cutoff = universes[u].cutoff
             /\ universes'[u].members = universes[u].members
    <3>1. universes[u].run \in DOMAIN runs /\ Shows(universes[u], u, runs[universes[u].run])
      BY <2>1 DEF Calculated
    <3>2. universes'[u].run \in DOMAIN runs' /\ runs'[universes'[u].run] = runs[universes[u].run]
      BY <2>1, <3>1
    <3> QED BY <2>1, <3>1, <3>2 DEF Shows
  <2> QED BY <1>1, <2>1
<1>2. ASSUME NEW r \in Sessions, pc'[r] = "recorded" PROVE Recorded(r)'
  <2>1. CASE /\ pc[r] = "recorded" /\ run'[r] = run[r]
             /\ context'[r] = context[r] /\ frames'[r] = frames[r]
    <3>1. Recorded(r) BY <2>1 DEF Calculated
    <3>2. run'[r] \in DOMAIN runs' /\ runs'[run'[r]] = runs[run[r]]
      BY <2>1, <3>1 DEF Recorded
    <3> QED BY <2>1, <3>1, <3>2 DEF Recorded, Mine, Held
  <2> QED BY <1>2, <2>1
<1> QED BY <1>1, <1>2 DEF Calculated

\* While one session goes on, those that wait to publish keep what they recorded.
LEMMA OthersWait ==
  ASSUME Inv, NEW s \in Sessions, pc'[s] # "recorded",
         \A r \in Sessions : r # s => /\ pc'[r] = pc[r] /\ run'[r] = run[r]
                                      /\ context'[r] = context[r] /\ frames'[r] = frames[r]
  PROVE  \A r \in Sessions : pc'[r] = "recorded" =>
            /\ pc[r] = "recorded" /\ run'[r] = run[r]
            /\ context'[r] = context[r] /\ frames'[r] = frames[r]
  OBVIOUS

LEMMA ShowOwn ==
  ASSUME Inv, NEW s \in Sessions, NEW u, Show(s, u)
  PROVE  \A r \in Sessions : r # s => context'[r] = context[r]
<1>1. context \in [Sessions -> Context] BY DEF Inv, StoreInv, TypeOK
<1> QED BY <1>1 DEF Show

\* No row turns PUBLISHED, and a published one keeps its run, cutoff and members.
NothingPublished ==
  \A u \in DOMAIN universes' : universes'[u].status = "PUBLISHED" =>
     /\ u \in DOMAIN universes /\ universes[u].status = "PUBLISHED"
     /\ universes'[u].run = universes[u].run
     /\ universes'[u].cutoff = universes[u].cutoff
     /\ universes'[u].members = universes[u].members

LEMMA SameUniverses == ASSUME universes' = universes PROVE NothingPublished
  BY DEF NothingPublished

LEMMA ConfigureQuiet ==
  ASSUME Inv, NEW s \in Sessions, NEW order, ConfigureUniverse(s, order)
  PROVE  NothingPublished /\ \A r \in Sessions : r # s => context'[r] = context[r]
<1>1. CASE Reuse(s, order)
  BY <1>1, ShowOwn, SameUniverses DEF Reuse, store
<1>2. CASE Create(s, order)
  <2> DEFINE w == [order |-> order, status |-> "CONFIGURED", version |-> 1, run |-> 0,
                   cutoff |-> 0, members |-> [x \in Symbols |-> NewMember]]
  <2>1. universes' = Append(universes, w) /\ w.status = "CONFIGURED" /\ Show(s, Len(universes) + 1)
    BY <1>2 DEF Create
  <2>2. universes \in Seq(Universe) /\ Len(universes) \in Nat /\ DOMAIN universes = 1..Len(universes)
    BY LenProperties DEF Inv, StoreInv, TypeOK
  <2> HIDE DEF w
  <2>3. \A u \in DOMAIN universes' :
          (u \in DOMAIN universes /\ universes'[u] = universes[u]) \/ universes'[u] = w
    BY <2>1, <2>2, AppendProperties
  <2> QED BY <2>1, <2>3, ShowOwn DEF NothingPublished
<1> QED BY <1>1, <1>2 DEF ConfigureUniverse

\* Rewriting one row to a status other than PUBLISHED, or only its version.
LEMMA RewriteQuiet ==
  ASSUME Inv, NEW u \in DOMAIN universes, NEW w, universes' = [universes EXCEPT ![u] = w],
         \/ w.status # "PUBLISHED"
         \/ /\ w.status = universes[u].status /\ w.run = universes[u].run
            /\ w.cutoff = universes[u].cutoff /\ w.members = universes[u].members
  PROVE  NothingPublished
<1>1. \A v \in DOMAIN universes' :
        v \in DOMAIN universes /\ (IF v = u THEN universes'[v] = w ELSE universes'[v] = universes[v])
  OBVIOUS
<1> QED BY <1>1 DEF NothingPublished

LEMMA MarkQuiet ==
  ASSUME Inv, NEW s \in Sessions, NEW u, NEW status \in Statuses \ {"PUBLISHED"}, Mark(s, u, status)
  PROVE  NothingPublished /\ \A r \in Sessions : r # s => context'[r] = context[r]
<1> DEFINE w == [universes[u] EXCEPT !.status = status]
<1>1. u \in DOMAIN universes /\ Show(s, u) /\ universes' = [universes EXCEPT ![u] = w]
  BY DEF Mark
<1>2. universes[u] \in Universe BY <1>1, Row DEF Inv
<1>3. w.status = status BY <1>2 DEF Universe
<1> HIDE DEF w
<1> QED BY <1>1, <1>3, RewriteQuiet, ShowOwn

LEMMA LoadedQuiet ==
  ASSUME Inv, NEW s \in Sessions, NEW u, NEW got, NEW failed, PublishLoaded(s, u, got, failed)
  PROVE  NothingPublished /\ \A r \in Sessions : r # s => context'[r] = context[r]
<1> DEFINE members == [x \in Symbols |->
              LET m == IF x \in DOMAIN got THEN LoadedMember(universes[u].members[x], got[x])
                       ELSE universes[u].members[x]
              IN IF x \in failed \cap Configured(u) THEN FailedMember(m) ELSE m]
           w == [universes[u] EXCEPT !.status = "LOADED", !.members = members]
<1>1. u \in DOMAIN universes /\ Show(s, u) BY DEF PublishLoaded
<1>2. universes[u] \in Universe BY <1>1, Row DEF Inv
<1>3. universes' = [universes EXCEPT ![u] = w] BY <1>2 DEF PublishLoaded, Universe
<1> HIDE DEF members
<1>4. w.status = "LOADED" BY <1>2 DEF Universe
<1> HIDE DEF w
<1> QED BY <1>1, <1>3, <1>4, RewriteQuiet, ShowOwn

LEMMA SelectQuiet ==
  ASSUME Inv, NEW s \in Sessions, NEW x \in Symbols, SelectDisplay(s, x)
  PROVE  NothingPublished /\ \A r \in Sessions : r # s => context'[r] = context[r]
<1>1. PICK u \in DOMAIN universes : Chosen(u, x) /\ Show(s, u) BY DEF SelectDisplay
<1> DEFINE w == [universes[u] EXCEPT !.version = @ + 1]
<1>2. universes[u] \in Universe BY Row DEF Inv
<1>3. /\ w.status = universes[u].status /\ w.run = universes[u].run
      /\ w.cutoff = universes[u].cutoff /\ w.members = universes[u].members
  BY <1>2 DEF Universe
<1>4. universes' = [universes EXCEPT ![u] = w] BY <1>1, <1>2 DEF Chosen, Universe
<1> HIDE DEF w
<1> QED BY <1>1, <1>3, <1>4, RewriteQuiet, ShowOwn

\* A publication writes its run, its cutoff and the members it has evidence for.
LEMMA CompletedFacts ==
  ASSUME Inv, NEW s \in Sessions, NEW u, NEW id, NEW evidence, NEW cutoff,
         PublishCompleted(s, u, id, evidence, cutoff)
  PROVE  /\ u \in DOMAIN universes /\ universes[u] \in Universe
         /\ DOMAIN universes' = DOMAIN universes
         /\ \A v \in DOMAIN universes : v # u => universes'[v] = universes[v]
         /\ universes'[u].run = id /\ universes'[u].cutoff = cutoff
         /\ \A x \in Symbols : x \in DOMAIN evidence =>
              /\ universes'[u].members[x] = CompletedMember(universes[u].members[x], evidence[x])
              /\ Match(universes[u].members[x], evidence[x])
         /\ \A x \in Symbols \ DOMAIN evidence :
              universes'[u].members[x] = universes[u].members[x]
         /\ \A r \in Sessions : r # s => context'[r] = context[r]
<1> DEFINE row == universes[u]
           members == [x \in Symbols |-> IF x \in DOMAIN evidence
                         THEN CompletedMember(row.members[x], evidence[x]) ELSE row.members[x]]
           published == [row EXCEPT !.status = "PUBLISHED", !.run = id, !.cutoff = cutoff,
                                    !.members = members]
           moved == [published EXCEPT !.version = @ + 1]
<1>1. /\ u \in DOMAIN universes /\ Show(s, u)
      /\ \A x \in DOMAIN evidence : Match(row.members[x], evidence[x])
  BY DEF PublishCompleted
<1>2. row \in Universe BY <1>1, Row DEF Inv
<1>3. \/ universes' = [universes EXCEPT ![u] = published]
      \/ universes' = [universes EXCEPT ![u] = moved]
  BY Zenon DEF PublishCompleted
<1>4. \A x \in Symbols :
        /\ x \in DOMAIN evidence => members[x] = CompletedMember(row.members[x], evidence[x])
        /\ x \notin DOMAIN evidence => members[x] = row.members[x]
  OBVIOUS
<1> HIDE DEF members
<1>5. published.run = id /\ published.cutoff = cutoff /\ published.members = members
  BY <1>2 DEF Universe
<1>6. moved.run = id /\ moved.cutoff = cutoff /\ moved.members = members
  BY <1>2 DEF Universe
<1> HIDE DEF published, moved
<1>7. /\ DOMAIN universes' = DOMAIN universes
      /\ \A v \in DOMAIN universes : v # u => universes'[v] = universes[v]
      /\ universes'[u] = published \/ universes'[u] = moved
  BY <1>1, <1>3
<1>8. universes'[u].run = id /\ universes'[u].cutoff = cutoff /\ universes'[u].members = members
  BY <1>5, <1>6, <1>7
<1> QED BY <1>1, <1>2, <1>4, <1>7, <1>8, ShowOwn
\* A step of a session that publishes nothing and records nothing.
LEMMA QuietKeeps ==
  ASSUME Inv, Calculated, NEW s \in Sessions, NEW to \in Places \ {"recorded"},
         NothingPublished, runs' = runs, pc' = [pc EXCEPT ![s] = to],
         \A r \in Sessions : r # s => /\ run'[r] = run[r] /\ context'[r] = context[r]
                                      /\ frames'[r] = frames[r]
  PROVE  Calculated'
<1>1. pc \in [Sessions -> Places] BY DEF Inv, SessionsOK
<1>2. pc'[s] # "recorded" /\ \A r \in Sessions : r # s => pc'[r] = pc[r] BY <1>1
<1>3. \A r \in Sessions : pc'[r] = "recorded" =>
        /\ pc[r] = "recorded" /\ run'[r] = run[r]
        /\ context'[r] = context[r] /\ frames'[r] = frames[r]
  BY <1>2, OthersWait
<1> QED BY <1>3, CalculatedKept DEF NothingPublished

\* A new run is the last of the list.
LEMMA NewRunFacts ==
  ASSUME Inv, NEW s \in Sessions, NEW kind \in {"full", "quick", "refresh"},
         NEW X \in SUBSET Symbols, NEW cutoff \in Candles, NewRun(s, kind, X, cutoff)
  PROVE  /\ \A i \in DOMAIN runs : i \in DOMAIN runs' /\ runs'[i] = runs[i]
         /\ Len(runs) + 1 \in DOMAIN runs'
         /\ runs'[Len(runs) + 1] = [kind |-> kind, universe |-> Mine(s), cutoff |-> cutoff,
                                    frames |-> [x \in Held(s, X) |-> frames[s][x]]]
<1> DEFINE r == [kind |-> kind, universe |-> Mine(s), cutoff |-> cutoff,
                 frames |-> [x \in Held(s, X) |-> frames[s][x]]]
<1>1. runs' = Append(runs, r) BY DEF NewRun
<1> HIDE DEF r
<1>2. runs \in Seq(Run) /\ Len(runs) \in Nat /\ DOMAIN runs = 1..Len(runs)
  BY LenProperties DEF Inv, SessionsOK
<1>3. /\ DOMAIN runs' = 1..(Len(runs) + 1) /\ runs'[Len(runs) + 1] = r
      /\ \A i \in 1..Len(runs) : runs'[i] = runs[i]
  BY <1>1, <1>2
<1> QED BY <1>2, <1>3 DEF r

\* A session publishes run id, which is r, with evidence for every frame of r.
Publishing(s, id, evidence, cutoff, r) ==
  /\ PublishCompleted(s, Mine(s), id, evidence, cutoff)
  /\ \A i \in DOMAIN runs : i \in DOMAIN runs' /\ runs'[i] = runs[i]
  /\ id \in DOMAIN runs' /\ runs'[id] = r /\ r.universe = Mine(s)
  /\ r.kind # "quick" => \A x \in DOMAIN r.frames :
       /\ x \in Symbols /\ x \in DOMAIN evidence /\ r.frames[x] # NoFrame
       /\ evidence[x].hash = r.frames[x] /\ evidence[x].candle = cutoff
  /\ pc' = [pc EXCEPT ![s] = "idle"] /\ frames' = frames
  /\ \A q \in Sessions : q # s => run'[q] = run[q]

\* The universe then shows that run.
LEMMA PublishKeeps ==
  ASSUME Inv, Calculated, NEW s \in Sessions, NEW id, NEW evidence, NEW cutoff, NEW r,
         Publishing(s, id, evidence, cutoff, r)
  PROVE  Calculated'
<1>0. /\ PublishCompleted(s, Mine(s), id, evidence, cutoff)
      /\ \A i \in DOMAIN runs : i \in DOMAIN runs' /\ runs'[i] = runs[i]
      /\ id \in DOMAIN runs' /\ runs'[id] = r /\ r.universe = Mine(s)
      /\ r.kind # "quick" => \A x \in DOMAIN r.frames :
           /\ x \in Symbols /\ x \in DOMAIN evidence /\ r.frames[x] # NoFrame
           /\ evidence[x].hash = r.frames[x] /\ evidence[x].candle = cutoff
      /\ pc' = [pc EXCEPT ![s] = "idle"] /\ frames' = frames
      /\ \A q \in Sessions : q # s => run'[q] = run[q]
  BY DEF Publishing
<1>1. PICK u : u = Mine(s) OBVIOUS
<1>2. /\ u \in DOMAIN universes /\ universes[u] \in Universe
      /\ DOMAIN universes' = DOMAIN universes
      /\ \A v \in DOMAIN universes : v # u => universes'[v] = universes[v]
      /\ universes'[u].run = id /\ universes'[u].cutoff = cutoff
      /\ \A x \in Symbols : x \in DOMAIN evidence =>
           universes'[u].members[x] = CompletedMember(universes[u].members[x], evidence[x])
      /\ \A q \in Sessions : q # s => context'[q] = context[q]
  BY <1>0, <1>1, CompletedFacts
<1>3. ASSUME r.kind # "quick", NEW x \in DOMAIN r.frames
      PROVE  /\ universes'[u].members[x].completed
             /\ universes'[u].members[x].hash = r.frames[x]
             /\ universes'[u].members[x].candle = cutoff
  <2>1. /\ x \in Symbols /\ x \in DOMAIN evidence /\ r.frames[x] # NoFrame
        /\ evidence[x].hash = r.frames[x] /\ evidence[x].candle = cutoff
    BY <1>0, <1>3
  <2>2. universes'[u].members[x] = CompletedMember(universes[u].members[x], evidence[x])
    BY <1>2, <2>1
  <2>3. universes[u].members[x] \in Member BY <1>2, <2>1 DEF Universe
  <2>4. /\ CompletedMember(universes[u].members[x], evidence[x]).completed
        /\ CompletedMember(universes[u].members[x], evidence[x]).hash = evidence[x].hash
        /\ CompletedMember(universes[u].members[x], evidence[x]).candle = evidence[x].candle
    BY <2>1, <2>3 DEF CompletedMember, Member
  <2> QED BY <2>1, <2>2, <2>4
<1>4. Shows(universes'[u], u, r) BY <1>0, <1>1, <1>2, <1>3 DEF Shows
<1>5. pc'[s] # "recorded" /\ \A q \in Sessions : q # s => pc'[q] = pc[q]
  BY <1>0 DEF Inv, SessionsOK
<1>6. \A q \in Sessions : pc'[q] = "recorded" =>
        /\ pc[q] = "recorded" /\ run'[q] = run[q]
        /\ context'[q] = context[q] /\ frames'[q] = frames[q]
  BY <1>0, <1>2, <1>5, OthersWait
<1>7. \A v \in DOMAIN universes' : universes'[v].status = "PUBLISHED" =>
        \/ /\ v \in DOMAIN universes /\ universes[v].status = "PUBLISHED"
           /\ universes'[v].run = universes[v].run
           /\ universes'[v].cutoff = universes[v].cutoff
           /\ universes'[v].members = universes[v].members
        \/ /\ universes'[v].run \in DOMAIN runs'
           /\ Shows(universes'[v], v, runs'[universes'[v].run])
  <2> SUFFICES ASSUME NEW v \in DOMAIN universes', universes'[v].status = "PUBLISHED"
      PROVE \/ /\ v \in DOMAIN universes /\ universes[v].status = "PUBLISHED"
               /\ universes'[v].run = universes[v].run
               /\ universes'[v].cutoff = universes[v].cutoff
               /\ universes'[v].members = universes[v].members
            \/ /\ universes'[v].run \in DOMAIN runs'
               /\ Shows(universes'[v], v, runs'[universes'[v].run])
    OBVIOUS
  <2>1. CASE v = u BY <2>1, <1>0, <1>2, <1>4
  <2>2. CASE v # u BY <2>2, <1>2
  <2> QED BY <2>1, <2>2
<1> QED BY <1>0, <1>6, <1>7, CalculatedKept

LEMMA RecordCalculated == ASSUME Inv, Calculated, NEW s \in Sessions, Record(s) PROVE Calculated'
<1> DEFINE X == context[s].loaded
           cutoff == IF target[s] = 0 THEN now ELSE target[s]
<1>1. /\ NewRun(s, "full", X, cutoff) /\ run' = [run EXCEPT ![s] = Len(runs) + 1]
      /\ pc' = [pc EXCEPT ![s] = "recorded"]
      /\ universes' = universes /\ context' = context /\ frames' = frames
  BY DEF Record, Go, universeVars
<1>2. cutoff \in Candles BY DEF Inv, SessionsOK, Candles
<1>3. X \in SUBSET Symbols BY Mine_
<1> HIDE DEF cutoff
<1>4. /\ \A i \in DOMAIN runs : i \in DOMAIN runs' /\ runs'[i] = runs[i]
      /\ Len(runs) + 1 \in DOMAIN runs'
      /\ runs'[Len(runs) + 1] = [kind |-> "full", universe |-> Mine(s), cutoff |-> cutoff,
                                 frames |-> [x \in Held(s, X) |-> frames[s][x]]]
  BY <1>1, <1>2, <1>3, NewRunFacts
<1>5. run'[s] = Len(runs) + 1 /\ \A r \in Sessions : r # s => run'[r] = run[r] /\ pc'[r] = pc[r]
  BY <1>1 DEF Inv, SessionsOK
<1>6. Recorded(s)'
  <2>1. /\ runs'[run'[s]].universe = Mine(s)
        /\ runs'[run'[s]].frames = [x \in Held(s, X) |-> frames[s][x]]
    BY <1>4, <1>5
  <2>2. run'[s] \in DOMAIN runs' BY <1>4, <1>5
  <2> QED BY <1>1, <2>1, <2>2 DEF Recorded, Mine, Held
<1>7. \A r \in Sessions : pc'[r] = "recorded" =>
        \/ /\ pc[r] = "recorded" /\ run'[r] = run[r]
           /\ context'[r] = context[r] /\ frames'[r] = frames[r]
        \/ Recorded(r)'
  <2> SUFFICES ASSUME NEW r \in Sessions, pc'[r] = "recorded"
      PROVE \/ /\ pc[r] = "recorded" /\ run'[r] = run[r]
               /\ context'[r] = context[r] /\ frames'[r] = frames[r]
            \/ Recorded(r)'
    OBVIOUS
  <2>1. CASE r = s BY <2>1, <1>6
  <2>2. CASE r # s BY <2>2, <1>1, <1>5
  <2> QED BY <2>1, <2>2
<1> QED BY <1>1, <1>4, <1>7, CalculatedKept

LEMMA PublishCalculated == ASSUME Inv, Calculated, NEW s \in Sessions, Publish(s) PROVE Calculated'
<1> DEFINE X == context[s].loaded
           evidence == [x \in X |-> [candle |-> frames[s][x].candle, hash |-> frames[s][x]]]
           r == runs[run[s]]
<1>1. /\ PublishCompleted(s, Mine(s), run[s], evidence, r.cutoff)
      /\ pc[s] = "recorded" /\ pc' = [pc EXCEPT ![s] = "idle"] /\ run' = [run EXCEPT ![s] = 0]
      /\ frames' = frames /\ runs' = runs /\ SameCutoff(s, X)
  BY DEF Publish, Go
<1>2. Recorded(s) BY <1>1 DEF Calculated
<1>3. run[s] \in DOMAIN runs /\ r.universe = Mine(s) BY <1>2 DEF Recorded
<1>4. ASSUME NEW x \in DOMAIN r.frames
      PROVE  /\ x \in Symbols /\ x \in DOMAIN evidence /\ r.frames[x] # NoFrame
             /\ evidence[x].hash = r.frames[x] /\ evidence[x].candle = r.cutoff
  <2>1. r.frames = [y \in Held(s, X) |-> frames[s][y]] BY <1>2 DEF Recorded
  <2>2. x \in X /\ frames[s][x] # NoFrame /\ r.frames[x] = frames[s][x]
    BY <1>4, <2>1 DEF Held
  <2>3. frames[s][x].candle = r.cutoff BY <1>1, <2>2 DEF SameCutoff
  <2> HIDE DEF r
  <2> QED BY <2>2, <2>3, Mine_
<1>5. \A q \in Sessions : q # s => run'[q] = run[q] BY <1>1 DEF Inv, SessionsOK
<1> HIDE DEF evidence, r
<1>6. PICK id, cutoff : id = run[s] /\ cutoff = r.cutoff OBVIOUS
<1>7. /\ runs'[id] = r /\ id \in DOMAIN runs'
      /\ \A i \in DOMAIN runs : i \in DOMAIN runs' /\ runs'[i] = runs[i]
  BY <1>1, <1>3, <1>6 DEF r
<1>8. \A x \in DOMAIN r.frames :
        /\ x \in Symbols /\ x \in DOMAIN evidence /\ r.frames[x] # NoFrame
        /\ evidence[x].hash = r.frames[x] /\ evidence[x].candle = cutoff
  BY <1>4, <1>6
<1>9. PublishCompleted(s, Mine(s), id, evidence, cutoff) BY <1>1, <1>6
<1>10. pc' = [pc EXCEPT ![s] = "idle"] /\ frames' = frames BY <1>1
<1>11. r.universe = Mine(s) BY <1>3
<1>12. Publishing(s, id, evidence, cutoff, r)
  BY <1>5, <1>7, <1>8, <1>9, <1>10, <1>11 DEF Publishing
<1> QED BY <1>12, PublishKeeps

LEMMA QuickCalculated == ASSUME Inv, Calculated, NEW s \in Sessions, SuperQuick(s) PROVE Calculated'
<1>a. PICK held \in SUBSET Held(s, Symbols) : \E cutoff \in {frames[s][x].candle : x \in held} :
          /\ NewRun(s, "quick", held, cutoff)
          /\ \E X \in SUBSET held \ {{}} :
               PublishCompleted(s, Mine(s), Len(runs) + 1,
                 [x \in X |-> [candle |-> cutoff, hash |-> NoFrame]], cutoff)
  BY Zenon DEF SuperQuick
<1>1. PICK cutoff \in {frames[s][x].candle : x \in held} :
        /\ NewRun(s, "quick", held, cutoff)
        /\ \E X \in SUBSET held \ {{}} :
             PublishCompleted(s, Mine(s), Len(runs) + 1,
               [x \in X |-> [candle |-> cutoff, hash |-> NoFrame]], cutoff)
  BY <1>a
<1>2. held \in SUBSET Symbols /\ \A x \in held : frames[s][x] \in Frames
  BY Mine_ DEF Held, Inv, SessionsOK
<1>3. cutoff \in Candles BY <1>2 DEF Frames, Candles
<1>4. PICK X : PublishCompleted(s, Mine(s), Len(runs) + 1,
                 [x \in X |-> [candle |-> cutoff, hash |-> NoFrame]], cutoff)
  BY <1>1
<1>5. /\ \A i \in DOMAIN runs : i \in DOMAIN runs' /\ runs'[i] = runs[i]
      /\ Len(runs) + 1 \in DOMAIN runs'
      /\ runs'[Len(runs) + 1] = [kind |-> "quick", universe |-> Mine(s), cutoff |-> cutoff,
                                 frames |-> [x \in Held(s, held) |-> frames[s][x]]]
  BY <1>1, <1>2, <1>3, NewRunFacts
<1> DEFINE evidence == [x \in X |-> [candle |-> cutoff, hash |-> NoFrame]]
           r == runs'[Len(runs) + 1]
<1>6. PublishCompleted(s, Mine(s), Len(runs) + 1, evidence, cutoff) BY <1>4
<1>7. r.universe = Mine(s) /\ r.kind = "quick" BY <1>5
<1>8. /\ pc' = [pc EXCEPT ![s] = "idle"] /\ frames' = frames
      /\ \A q \in Sessions : q # s => run'[q] = run[q]
  BY DEF SuperQuick, Click
<1> HIDE DEF evidence, r
<1>9. runs'[Len(runs) + 1] = r BY DEF r
<1>10. Publishing(s, Len(runs) + 1, evidence, cutoff, r)
  BY <1>5, <1>6, <1>7, <1>8, <1>9 DEF Publishing
<1> QED BY <1>10, PublishKeeps

LEMMA RefreshCalculated ==
  ASSUME Inv, Calculated, NEW s \in Sessions, RefreshPublish(s) PROVE Calculated'
<1>1. PICK cutoff \in Cutoffs :
        LET X == {x \in Held(s, context[s].loaded) : frames[s][x].candle = cutoff} IN
        /\ NewRun(s, "refresh", X, cutoff)
        /\ PublishCompleted(s, Mine(s), Len(runs) + 1,
             [x \in X |-> [candle |-> cutoff, hash |-> frames[s][x]]], cutoff)
  BY DEF RefreshPublish
<1> DEFINE X == {x \in Held(s, context[s].loaded) : frames[s][x].candle = cutoff}
           evidence == [x \in X |-> [candle |-> cutoff, hash |-> frames[s][x]]]
           r == runs'[Len(runs) + 1]
<1>2. /\ NewRun(s, "refresh", X, cutoff)
      /\ PublishCompleted(s, Mine(s), Len(runs) + 1, evidence, cutoff)
  BY <1>1
<1>3. X \in SUBSET Symbols /\ \A x \in X : frames[s][x] # NoFrame
  BY Mine_ DEF Held
<1>4. \A x \in X : /\ x \in DOMAIN evidence /\ evidence[x].hash = frames[s][x]
                   /\ evidence[x].candle = cutoff
  OBVIOUS
<1>5. Held(s, X) \subseteq X BY DEF Held
<1> HIDE DEF X, evidence
<1>6. cutoff \in Candles BY DEF Candles
<1>7. /\ \A i \in DOMAIN runs : i \in DOMAIN runs' /\ runs'[i] = runs[i]
      /\ Len(runs) + 1 \in DOMAIN runs'
      /\ r = [kind |-> "refresh", universe |-> Mine(s), cutoff |-> cutoff,
              frames |-> [x \in Held(s, X) |-> frames[s][x]]]
  BY <1>2, <1>3, <1>6, NewRunFacts
<1> HIDE DEF r
<1>8. r.universe = Mine(s) /\ r.frames = [x \in Held(s, X) |-> frames[s][x]] BY <1>7
<1>9. \A x \in DOMAIN r.frames :
        /\ x \in Symbols /\ x \in DOMAIN evidence /\ r.frames[x] # NoFrame
        /\ evidence[x].hash = r.frames[x] /\ evidence[x].candle = cutoff
  BY <1>3, <1>4, <1>5, <1>8
<1>10. /\ pc' = [pc EXCEPT ![s] = "idle"] /\ frames' = frames
       /\ \A q \in Sessions : q # s => run'[q] = run[q]
  BY DEF RefreshPublish, Go
<1>11. runs'[Len(runs) + 1] = r BY DEF r
<1>12. /\ \A i \in DOMAIN runs : i \in DOMAIN runs' /\ runs'[i] = runs[i]
       /\ Len(runs) + 1 \in DOMAIN runs'
  BY <1>7
<1>13. r.universe = Mine(s) BY <1>8
<1>14. Publishing(s, Len(runs) + 1, evidence, cutoff, r)
  BY <1>2, <1>9, <1>10, <1>11, <1>12, <1>13 DEF Publishing
<1> QED BY <1>14, PublishKeeps

LEMMA InitCalculated == ASSUME RInit PROVE Calculated
  BY DEF RInit, Init, Calculated

LEMMA StepCalculated == ASSUME Inv, Calculated, [RNext]_vars PROVE Calculated'
<1>1. ASSUME NEW s \in Sessions, StartLoad(s) \/ StartActivate(s) PROVE Calculated'
  <2>1. NothingPublished /\ \A r \in Sessions : r # s => context'[r] = context[r]
    BY <1>1, ConfigureQuiet DEF StartLoad, StartActivate
  <2> QED BY <1>1, <2>1, QuietKeeps DEF StartLoad, StartActivate, Click, sessionVars, Places
<1>2. ASSUME NEW s \in Sessions, MarkLoading(s) \/ MarkCalculating(s) \/ RefreshCalculating(s)
      PROVE Calculated'
  <2>1. NothingPublished /\ \A r \in Sessions : r # s => context'[r] = context[r]
    BY <1>2, MarkQuiet DEF MarkLoading, MarkCalculating, RefreshCalculating, Statuses
  <2> QED BY <1>2, <2>1, QuietKeeps
          DEF MarkLoading, MarkCalculating, RefreshCalculating, Go, sessionVars, Places
<1>3. ASSUME NEW s \in Sessions, FinishLoad(s) PROVE Calculated'
  <2>0. \E requested \in SUBSET Configured(Mine(s)) \ {{}} : \E got \in SUBSET requested :
          \E fetched \in [got -> {f \in Frames : f.candle <= now}] :
            /\ PublishLoaded(s, Mine(s), fetched, requested \ got)
            /\ frames' = [frames EXCEPT ![s] =
                            [x \in Symbols |-> IF x \in got THEN fetched[x] ELSE @[x]]]
    BY <1>3 DEF FinishLoad
  <2>a. PICK requested \in SUBSET Configured(Mine(s)) \ {{}} : \E got \in SUBSET requested :
          \E fetched \in [got -> {f \in Frames : f.candle <= now}] :
            /\ PublishLoaded(s, Mine(s), fetched, requested \ got)
            /\ frames' = [frames EXCEPT ![s] =
                            [x \in Symbols |-> IF x \in got THEN fetched[x] ELSE @[x]]]
    BY <2>0
  <2>b. PICK got \in SUBSET requested :
          \E fetched \in [got -> {f \in Frames : f.candle <= now}] :
            /\ PublishLoaded(s, Mine(s), fetched, requested \ got)
            /\ frames' = [frames EXCEPT ![s] =
                            [x \in Symbols |-> IF x \in got THEN fetched[x] ELSE @[x]]]
    BY <2>a
  <2>1. PICK fetched \in [got -> {f \in Frames : f.candle <= now}] :
            /\ PublishLoaded(s, Mine(s), fetched, requested \ got)
            /\ frames' = [frames EXCEPT ![s] =
                            [x \in Symbols |-> IF x \in got THEN fetched[x] ELSE @[x]]]
    BY <2>b
  <2>2. NothingPublished /\ \A r \in Sessions : r # s => context'[r] = context[r]
    BY <2>1, LoadedQuiet
  <2>3. \A r \in Sessions : r # s => frames'[r] = frames[r]
    BY <2>1 DEF Inv, SessionsOK
  <2>4. pc' = [pc EXCEPT ![s] = "idle"] /\ runs' = runs /\ run' = run
    BY <1>3 DEF FinishLoad, Go
  <2>5. \A r \in Sessions : r # s => /\ run'[r] = run[r] /\ context'[r] = context[r]
                                    /\ frames'[r] = frames[r]
    BY <2>2, <2>3, <2>4
  <2>6. "idle" \in Places \ {"recorded"} BY DEF Places
  <2> QED BY <2>2, <2>4, <2>5, <2>6, QuietKeeps
<1>4. ASSUME NEW s \in Sessions, FinishActivate(s) \/ RefreshLoaded(s) PROVE Calculated'
  <2>1. NothingPublished /\ \A r \in Sessions : r # s => context'[r] = context[r]
    BY <1>4, LoadedQuiet DEF FinishActivate, RefreshLoaded, PublishHeld
  <2>2. PICK to \in Places \ {"recorded"} : pc' = [pc EXCEPT ![s] = to]
    BY <1>4 DEF FinishActivate, RefreshLoaded, Go, Places
  <2>3. UNCHANGED <<frames, run, runs>>
    BY <1>4 DEF FinishActivate, RefreshLoaded, sessionVars
  <2> QED BY <2>1, <2>2, <2>3, QuietKeeps
<1>5. ASSUME NEW s \in Sessions, Check(s) PROVE Calculated'
  BY <1>5, SameUniverses, QuietKeeps DEF Check, Click, universeVars, sessionVars, Places
<1>6. ASSUME NEW s \in Sessions, GiveUp(s) PROVE Calculated'
  <2>1. \A r \in Sessions : r # s => run'[r] = run[r]
    BY <1>6 DEF GiveUp, Inv, SessionsOK
  <2> QED BY <1>6, <2>1, SameUniverses, QuietKeeps DEF GiveUp, Go, universeVars, Places
<1>7. ASSUME NEW s \in Sessions, Record(s) PROVE Calculated'
  BY <1>7, RecordCalculated
<1>8. ASSUME NEW s \in Sessions, Publish(s) PROVE Calculated'
  BY <1>8, PublishCalculated
<1>9. ASSUME NEW s \in Sessions, SuperQuick(s) PROVE Calculated'
  BY <1>9, QuickCalculated
<1>10. ASSUME NEW s \in Sessions, RefreshPublish(s) PROVE Calculated'
  BY <1>10, RefreshCalculated
<1>11. ASSUME NEW s \in Sessions, StartRefresh(s) PROVE Calculated'
  <2>1. NothingPublished /\ \A r \in Sessions : r # s => context'[r] = context[r]
    BY <1>11, ConfigureQuiet, SameUniverses DEF StartRefresh, universeVars
  <2> QED BY <1>11, <2>1, QuietKeeps DEF StartRefresh, Click, sessionVars, Places
<1>12. ASSUME NEW s \in Sessions, Choose(s) PROVE Calculated'
  <2>1. CASE Restore(s)
    BY <1>12, <2>1, SameUniverses, ShowOwn, QuietKeeps
       DEF Restore, store, Choose, Click, sessionVars, Places
  <2>2. CASE \E x \in Symbols : SelectDisplay(s, x)
    BY <1>12, <2>2, SelectQuiet, QuietKeeps DEF Choose, Click, sessionVars, Places
  <2> QED BY <1>12, <2>1, <2>2 DEF Choose
<1>13. CASE Tick \/ UNCHANGED vars
  BY <1>13 DEF Tick, vars, universeVars, sessionVars, Calculated, Recorded, Shows, Mine, Held
<1> QED
  BY <1>1, <1>2, <1>3, <1>4, <1>5, <1>6, <1>7, <1>8, <1>9, <1>10, <1>11, <1>12, <1>13 DEF RNext

\* What a full run or a refresh has published is what it calculated, frame by frame and at
\* one cutoff, whatever other sessions load, mark and publish between its steps.
THEOREM PublishedHolds == Spec => []PublishedIsCalculated
<1>1. RInit => Inv /\ Calculated BY InitInv, InitCalculated
<1>2. Inv /\ Calculated /\ [RNext]_vars => (Inv /\ Calculated)' BY StepInv, StepCalculated
<1>3. Calculated => PublishedIsCalculated BY DEF Calculated, Shows, PublishedIsCalculated
<1> QED BY <1>1, <1>2, <1>3, PTL DEF Spec
-----------------------------------------------------------------------------
(* Publications overwrite no load.                                         *)

\* A loaded member has the hash of a frame, so a publication that carries a hash is
\* compared with it.
RowFramed(w) == \A x \in Symbols : w.members[x].loaded => w.members[x].hash # NoFrame
Framed == \A u \in DOMAIN universes : RowFramed(universes[u])

\* A step keeps that, and where it writes a run it leaves the hashes alone.
Guarded ==
  /\ Framed'
  /\ \A u \in DOMAIN universes : \A x \in Symbols :
       universes'[u].run # universes[u].run
         => universes'[u].members[x].hash = universes[u].members[x].hash

LEMMA SameGuarded == ASSUME Framed, universes' = universes PROVE Guarded
  BY DEF Framed, RowFramed, Guarded

LEMMA RewriteGuarded ==
  ASSUME Framed, NEW u \in DOMAIN universes, NEW w, universes' = [universes EXCEPT ![u] = w],
         RowFramed(w), w.run = universes[u].run
  PROVE  Guarded
<1>1. /\ DOMAIN universes' = DOMAIN universes /\ universes'[u] = w
      /\ \A v \in DOMAIN universes : v # u => universes'[v] = universes[v]
  OBVIOUS
<1>2. Framed' BY <1>1 DEF Framed, RowFramed
<1> QED BY <1>1, <1>2 DEF Guarded

LEMMA ConfigureGuarded ==
  ASSUME Inv, Framed, NEW s \in Sessions, NEW order, ConfigureUniverse(s, order)
  PROVE  Guarded
<1>1. CASE Reuse(s, order) BY <1>1, SameGuarded DEF Reuse, store
<1>2. CASE Create(s, order)
  <2> DEFINE w == [order |-> order, status |-> "CONFIGURED", version |-> 1, run |-> 0,
                   cutoff |-> 0, members |-> [x \in Symbols |-> NewMember]]
  <2>1. universes' = Append(universes, w) /\ RowFramed(w)
    BY <1>2 DEF Create, RowFramed, NewMember
  <2>2. universes \in Seq(Universe) /\ Len(universes) \in Nat /\ DOMAIN universes = 1..Len(universes)
    BY LenProperties DEF Inv, StoreInv, TypeOK
  <2> HIDE DEF w
  <2>3. /\ \A u \in DOMAIN universes' :
             (u \in DOMAIN universes /\ universes'[u] = universes[u]) \/ universes'[u] = w
        /\ \A u \in DOMAIN universes : universes'[u] = universes[u]
    BY <2>1, <2>2, AppendProperties
  <2>4. Framed' BY <2>1, <2>3 DEF Framed, RowFramed
  <2> QED BY <2>3, <2>4 DEF Guarded
<1> QED BY <1>1, <1>2 DEF ConfigureUniverse

LEMMA MarkGuarded ==
  ASSUME Inv, Framed, NEW s, NEW u, NEW status, Mark(s, u, status) PROVE Guarded
<1> DEFINE w == [universes[u] EXCEPT !.status = status]
<1>1. u \in DOMAIN universes /\ universes' = [universes EXCEPT ![u] = w] BY DEF Mark
<1>2. universes[u] \in Universe BY <1>1, Row DEF Inv
<1>3. w.run = universes[u].run /\ w.members = universes[u].members BY <1>2 DEF Universe
<1> HIDE DEF w
<1>4. RowFramed(w) BY <1>1, <1>3 DEF Framed, RowFramed
<1> QED BY <1>1, <1>3, <1>4, RewriteGuarded

LEMMA LoadedGuarded ==
  ASSUME Inv, Framed, NEW s, NEW u, NEW got, NEW failed,
         \A x \in DOMAIN got : got[x] # NoFrame, PublishLoaded(s, u, got, failed)
  PROVE  Guarded
<1> DEFINE row == universes[u]
           after(x) == IF x \in DOMAIN got THEN LoadedMember(row.members[x], got[x])
                       ELSE row.members[x]
           members == [x \in Symbols |->
                         IF x \in failed \cap Configured(u) THEN FailedMember(after(x)) ELSE after(x)]
           w == [row EXCEPT !.status = "LOADED", !.members = members]
<1>1. u \in DOMAIN universes BY DEF PublishLoaded
<1>2. row \in Universe BY <1>1, Row DEF Inv
<1>3. universes' = [universes EXCEPT ![u] = w] BY <1>2 DEF PublishLoaded, Universe
<1>4. ASSUME NEW x \in Symbols, members[x].loaded PROVE members[x].hash # NoFrame
  <2>1. /\ row.members[x] \in Member
        /\ row.members[x].loaded => row.members[x].hash # NoFrame
    BY <1>1, <1>2 DEF Universe, Framed, RowFramed
  <2>2. after(x).loaded => after(x).hash # NoFrame
    BY <2>1 DEF LoadedMember, Member
  <2>3. after(x).loaded \in BOOLEAN /\ FailedMember(after(x)).loaded = FALSE
    <3>1. after(x) = row.members[x] \/ after(x) = LoadedMember(row.members[x], got[x])
      OBVIOUS
    <3> HIDE DEF after
    <3> QED BY <2>1, <3>1 DEF LoadedMember, FailedMember, Member
  <2> HIDE DEF after
  <2>4. members[x] = FailedMember(after(x)) \/ members[x] = after(x)
    OBVIOUS
  <2> HIDE DEF members
  <2> QED BY <1>4, <2>2, <2>3, <2>4
<1> HIDE DEF members
<1>5. w.run = row.run /\ w.members = members BY <1>2 DEF Universe
<1> HIDE DEF w
<1>6. RowFramed(w) BY <1>4, <1>5 DEF RowFramed
<1> QED BY <1>1, <1>3, <1>5, <1>6, RewriteGuarded

LEMMA SelectGuarded ==
  ASSUME Inv, Framed, NEW s \in Sessions, NEW x \in Symbols, SelectDisplay(s, x) PROVE Guarded
<1>1. PICK u \in DOMAIN universes : Chosen(u, x) BY DEF SelectDisplay
<1> DEFINE w == [universes[u] EXCEPT !.version = @ + 1]
<1>2. universes[u] \in Universe BY Row DEF Inv
<1>3. w.run = universes[u].run /\ w.members = universes[u].members BY <1>2 DEF Universe
<1>4. universes' = [universes EXCEPT ![u] = w] BY <1>1, <1>2 DEF Chosen, Universe
<1> HIDE DEF w
<1>5. RowFramed(w) BY <1>3 DEF Framed, RowFramed
<1> QED BY <1>3, <1>4, <1>5, RewriteGuarded

\* The evidence for a loaded symbol has its hash, or has none and leaves it.
LEMMA CompletedGuarded ==
  ASSUME Inv, Framed, NEW s \in Sessions, NEW u, NEW id, NEW evidence, NEW cutoff,
         PublishCompleted(s, u, id, evidence, cutoff)
  PROVE  Guarded
<1>1. /\ u \in DOMAIN universes /\ universes[u] \in Universe
      /\ DOMAIN universes' = DOMAIN universes
      /\ \A v \in DOMAIN universes : v # u => universes'[v] = universes[v]
      /\ \A x \in Symbols : x \in DOMAIN evidence =>
           /\ universes'[u].members[x] = CompletedMember(universes[u].members[x], evidence[x])
           /\ Match(universes[u].members[x], evidence[x])
      /\ \A x \in Symbols \ DOMAIN evidence :
           universes'[u].members[x] = universes[u].members[x]
  BY CompletedFacts
<1>2. ASSUME NEW x \in Symbols
      PROVE  /\ universes'[u].members[x].loaded = universes[u].members[x].loaded
             /\ universes'[u].members[x].hash = universes[u].members[x].hash
  <2>1. CASE x \in DOMAIN evidence
    <3>1. /\ universes[u].members[x] \in Member
          /\ universes[u].members[x].loaded => universes[u].members[x].hash # NoFrame
      BY <1>1 DEF Universe, Framed, RowFramed
    <3>2. /\ universes'[u].members[x] = CompletedMember(universes[u].members[x], evidence[x])
          /\ Match(universes[u].members[x], evidence[x])
      BY <1>1, <2>1
    <3> QED BY <3>1, <3>2 DEF CompletedMember, Match, Member
  <2>2. CASE x \notin DOMAIN evidence BY <1>1, <2>2
  <2> QED BY <2>1, <2>2
<1>3. Framed' BY <1>1, <1>2 DEF Framed, RowFramed
<1> QED BY <1>1, <1>2, <1>3 DEF Guarded

LEMMA StepGuarded == ASSUME Inv, Framed, [RNext]_vars PROVE Guarded
<1>1. ASSUME NEW s \in Sessions, StartLoad(s) \/ StartActivate(s) PROVE Guarded
  BY <1>1, ConfigureGuarded DEF StartLoad, StartActivate
<1>2. ASSUME NEW s \in Sessions, MarkLoading(s) \/ MarkCalculating(s) \/ RefreshCalculating(s)
      PROVE Guarded
  BY <1>2, MarkGuarded DEF MarkLoading, MarkCalculating, RefreshCalculating
<1>3. ASSUME NEW s \in Sessions, FinishLoad(s) PROVE Guarded
  <2>1. PICK requested \in SUBSET Configured(Mine(s)) \ {{}} : \E got \in SUBSET requested :
          \E fetched \in [got -> {f \in Frames : f.candle <= now}] :
            PublishLoaded(s, Mine(s), fetched, requested \ got)
    BY <1>3 DEF FinishLoad
  <2>2. PICK got \in SUBSET requested :
          \E fetched \in [got -> {f \in Frames : f.candle <= now}] :
            PublishLoaded(s, Mine(s), fetched, requested \ got)
    BY <2>1
  <2>3. PICK fetched \in [got -> {f \in Frames : f.candle <= now}] :
            PublishLoaded(s, Mine(s), fetched, requested \ got)
    BY <2>2
  <2>4. \A x \in DOMAIN fetched : fetched[x] # NoFrame BY UniverseOK
  <2> QED BY <2>3, <2>4, LoadedGuarded
<1>4. ASSUME NEW s \in Sessions, FinishActivate(s) \/ RefreshLoaded(s) PROVE Guarded
  <2> DEFINE held == Held(s, Configured(Mine(s)))
             got == [x \in held |-> frames[s][x]]
  <2>1. PublishLoaded(s, Mine(s), got, Configured(Mine(s)) \ held)
    BY <1>4 DEF FinishActivate, RefreshLoaded, PublishHeld
  <2>2. \A x \in DOMAIN got : got[x] # NoFrame BY DEF Held
  <2> HIDE DEF got
  <2> QED BY <2>1, <2>2, LoadedGuarded
<1>5. ASSUME NEW s \in Sessions, Check(s) \/ Record(s) \/ GiveUp(s) PROVE Guarded
  BY <1>5, SameGuarded DEF Check, Record, GiveUp, universeVars
<1>6. ASSUME NEW s \in Sessions, Publish(s) PROVE Guarded
  <2>1. PICK id, evidence, cutoff : PublishCompleted(s, Mine(s), id, evidence, cutoff)
    BY <1>6, Zenon DEF Publish
  <2> QED BY <2>1, CompletedGuarded
<1>7. ASSUME NEW s \in Sessions, SuperQuick(s) PROVE Guarded
  <2>1. PICK id, evidence, cutoff : PublishCompleted(s, Mine(s), id, evidence, cutoff)
    BY <1>7, Zenon DEF SuperQuick
  <2> QED BY <2>1, CompletedGuarded
<1>8. ASSUME NEW s \in Sessions, RefreshPublish(s) PROVE Guarded
  <2>1. PICK id, evidence, cutoff : PublishCompleted(s, Mine(s), id, evidence, cutoff)
    BY <1>8, Zenon DEF RefreshPublish
  <2> QED BY <2>1, CompletedGuarded
<1>9. ASSUME NEW s \in Sessions, StartRefresh(s) PROVE Guarded
  BY <1>9, ConfigureGuarded, SameGuarded DEF StartRefresh, universeVars
<1>10. ASSUME NEW s \in Sessions, Choose(s) PROVE Guarded
  BY <1>10, SelectGuarded, SameGuarded DEF Choose, Restore, store
<1>11. CASE Tick \/ UNCHANGED vars BY <1>11, SameGuarded DEF Tick, vars, universeVars
<1> QED
  BY <1>1, <1>2, <1>3, <1>4, <1>5, <1>6, <1>7, <1>8, <1>9, <1>10, <1>11 DEF RNext

\* No publication, with hashes or without, replaces the frame another session has loaded.
THEOREM LoadsHold == Spec => LoadsAreNotOverwritten
<1>1. RInit => Inv /\ Framed BY InitInv DEF RInit, Init, Framed
<1>2. Inv /\ Framed /\ [RNext]_vars => (Inv /\ Framed)' BY StepInv, StepGuarded DEF Guarded
<1>3. Inv /\ Framed /\ [RNext]_vars =>
        [\A u \in DOMAIN universes : \A x \in Symbols :
           universes'[u].run # universes[u].run
             => universes'[u].members[x].hash = universes[u].members[x].hash]_vars
  BY StepGuarded DEF Guarded
<1> QED BY <1>1, <1>2, <1>3, PTL DEF Spec, LoadsAreNotOverwritten
=============================================================================
