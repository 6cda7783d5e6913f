--------------------------- MODULE SymbolUniverse ---------------------------
(***************************************************************************)
(* core/global_symbol_context.py: the tables of symbol universes, their    *)
(* members and the one display selection, and the copy of a universe each  *)
(* session keeps. An operation is one BEGIN IMMEDIATE transaction under    *)
(* _SELECTION_LOCK followed by a write to the caller's own session; one    *)
(* that raises is rolled back, so only its success is an action. A         *)
(* universe's generation is its index in universes.                        *)
(***************************************************************************)
EXTENDS Integers, Sequences, FiniteSets, Functions

CONSTANTS
  Symbols, Sessions,
  Configurations, \* ordered, duplicate-free, not empty: what Settings can ask for
  Cutoffs,        \* completed candles; 0 stands for none
  Contents,       \* what else tells two candle frames of a symbol apart
  NoSymbol, NoFrame,
  MaxUniverses    \* bound on generations

Frames == [candle : Cutoffs, content : Contents]

ASSUME UniverseOK ==
  /\ Cutoffs \subseteq Nat \ {0} /\ NoSymbol \notin Symbols /\ NoFrame \notin Frames
  /\ \A c \in Configurations : c \in Seq(Symbols) /\ c # <<>>

VARIABLES
  universes, \* canonical_symbol_universe_v2 with its members
  display,   \* canonical_display_selection_v2
  context    \* CONTEXT_STATE_KEY of each session

store == <<universes, display>>
universeVars == <<universes, display, context>>

Candles == Cutoffs \cup {0}
Statuses == {"CONFIGURED", "LOADING", "LOADED", "CALCULATING", "PUBLISHED"}
Reusable == {"CONFIGURED", "LOADING", "LOADED", "CALCULATING"}
Member == [loaded : BOOLEAN, completed : BOOLEAN, failed : BOOLEAN,
           candle : Candles, hash : Frames \cup {NoFrame}]
NewMember_Unset == [loaded |-> FALSE, completed |-> FALSE, failed |-> FALSE,
                    candle |-> -1, hash |-> NoFrame]
NewMember == [loaded |-> FALSE, completed |-> FALSE, failed |-> FALSE,
              candle |-> 0, hash |-> NoFrame]
NoContext == [universe |-> 0, status |-> "EMPTY", loaded |-> {}, completed |-> {},
              active |-> NoSymbol, run |-> 0, cutoff |-> 0]

Init ==
  /\ universes = <<>>
  /\ display = [universe |-> 0, symbol |-> NoSymbol, version |-> 0]
  /\ context = [s \in Sessions |-> NoContext]

LoadedIn(universe) == {x \in Symbols : universe.members[x].loaded}
CompletedIn(universe) == {x \in Symbols : universe.members[x].completed}
Configured(u) == Range(universes[u].order)

\* loaded_selector_options: completed_symbols or loaded_symbols
Options(loaded, completed) == IF completed # {} THEN completed ELSE loaded

\* The configured order decides who comes first.
First(order, S) ==
  LET At == {i \in DOMAIN order : order[i] \in S}
  IN IF At = {} THEN NoSymbol ELSE order[CHOOSE i \in At : \A j \in At : i <= j]

\* _context_from_conn
View(all, shown, u) ==
  LET options == Options(LoadedIn(all[u]), CompletedIn(all[u])) IN
  [universe |-> u, status |-> all[u].status,
   loaded |-> LoadedIn(all[u]), completed |-> CompletedIn(all[u]),
   active |-> IF shown.universe = u /\ shown.symbol \in options
              THEN shown.symbol ELSE First(all[u].order, options),
   run |-> all[u].run, cutoff |-> all[u].cutoff]

\* The universe shown when none is named: published before loaded before the rest.
Rank(status) == CASE status = "PUBLISHED" -> 0 [] status = "LOADED" -> 2 [] OTHER -> 3
Latest(u) ==
  /\ u \in DOMAIN universes
  /\ \A v \in DOMAIN universes :
       \/ Rank(universes[u].status) < Rank(universes[v].status)
       \/ Rank(universes[u].status) = Rank(universes[v].status) /\ u >= v

-----------------------------------------------------------------------------
(* Mutants                                                                 *)

FailedMember_StaysCompleted(m) == [m EXCEPT !.loaded = FALSE, !.failed = TRUE]
Chosen_OnlyDisplay(u, x) ==
  /\ display' = [universe |-> u, symbol |-> x, version |-> universes[u].version + 1]
  /\ UNCHANGED universes
Match_Unchecked(m, e) == m.loaded

-----------------------------------------------------------------------------
(* What the operations write                                               *)

LoadedMember(m, frame) ==
  [m EXCEPT !.loaded = TRUE, !.failed = FALSE, !.candle = frame.candle, !.hash = frame]
FailedMember(m) == [m EXCEPT !.loaded = FALSE, !.completed = FALSE, !.failed = TRUE]
CompletedMember(m, e) ==
  [m EXCEPT !.completed = TRUE, !.candle = e.candle,
            !.hash = IF e.hash = NoFrame THEN @ ELSE e.hash]

\* _publish_to_state
Show(s, u) == context' = [context EXCEPT ![s] = View(universes', display', u)]

\* An open universe with this configuration is used again, the newest of them.
Open(order) == {u \in DOMAIN universes :
                  universes[u].order = order /\ universes[u].status \in Reusable}

Reuse(s, order) ==
  \E u \in Open(order) :
    (\A v \in Open(order) : u >= v) /\ UNCHANGED store /\ Show(s, u)

Create(s, order) ==
  /\ Open(order) = {} /\ Len(universes) < MaxUniverses
  /\ universes' = Append(universes,
       [order |-> order, status |-> "CONFIGURED", version |-> 1, run |-> 0,
        cutoff |-> 0, members |-> [x \in Symbols |-> NewMember]])
  /\ UNCHANGED display /\ Show(s, Len(universes) + 1)

ConfigureUniverse(s, order) == Reuse(s, order) \/ Create(s, order)

\* mark_universe_loading, mark_universe_calculating: from any status
Mark(s, u, status) ==
  /\ u \in DOMAIN universes
  /\ universes' = [universes EXCEPT ![u].status = status]
  /\ UNCHANGED display /\ Show(s, u)

\* publish_loaded_universe: frames maps the loaded symbols; a failure listed
\* for a loaded symbol wins, and members that are not listed stay as they are.
PublishLoaded(s, u, frames, failed) ==
  /\ u \in DOMAIN universes /\ DOMAIN frames \subseteq Configured(u)
  /\ universes' = [universes EXCEPT ![u].status = "LOADED", ![u].members =
       [x \in Symbols |->
          LET m == IF x \in DOMAIN frames THEN LoadedMember(@[x], frames[x]) ELSE @[x]
          IN IF x \in failed \cap Configured(u) THEN FailedMember(m) ELSE m]]
  /\ UNCHANGED display /\ Show(s, u)

\* COMPLETED_SYMBOL_NOT_LOADED, SOURCE_DATA_HASH_MISMATCH
Match(m, e) == m.loaded /\ (e.hash = NoFrame \/ m.hash = NoFrame \/ e.hash = m.hash)

\* The display row and the universe get the universe's next selection_version.
Chosen(u, x) ==
  /\ display' = [universe |-> u, symbol |-> x, version |-> universes[u].version + 1]
  /\ universes' = [universes EXCEPT ![u].version = @ + 1]

\* publish_completed_generation: evidence maps each symbol to its candle and, if
\* the caller gives one, the hash of the frame it calculated. The display row is
\* only touched when its symbol is not completed here.
PublishCompleted(s, u, run, evidence, cutoff) ==
  LET published ==
        [universes[u] EXCEPT !.status = "PUBLISHED", !.run = run, !.cutoff = cutoff,
           !.members = [x \in Symbols |-> IF x \in DOMAIN evidence
                          THEN CompletedMember(@[x], evidence[x]) ELSE @[x]]]
      first == First(published.order, CompletedIn(published))
      moves == CompletedIn(published) # {} /\ display.symbol \notin CompletedIn(published)
  IN /\ u \in DOMAIN universes
     /\ \A x \in DOMAIN evidence : Match(universes[u].members[x], evidence[x])
     /\ \A x, y \in DOMAIN evidence : evidence[x].candle = evidence[y].candle
     /\ IF moves
        THEN /\ display' = [universe |-> u, symbol |-> first, version |-> published.version + 1]
             /\ universes' = [universes EXCEPT ![u] = [published EXCEPT !.version = @ + 1]]
        ELSE universes' = [universes EXCEPT ![u] = published] /\ UNCHANGED display
     /\ Show(s, u)

\* select_active_display_symbol, which every caller leaves to the latest universe
SelectDisplay(s, x) ==
  \E u \in DOMAIN universes :
    /\ Latest(u) /\ x \in Options(LoadedIn(universes[u]), CompletedIn(universes[u]))
    /\ Chosen(u, x) /\ Show(s, u)

\* restore_latest_context
Restore(s) == \E u \in DOMAIN universes : Latest(u) /\ UNCHANGED store /\ Show(s, u)

-----------------------------------------------------------------------------
(* Properties                                                              *)

Universe == [order : Configurations, status : Statuses, version : Nat, run : Nat,
             cutoff : Candles, members : [Symbols -> Member]]
Context == [universe : Nat, status : Statuses \cup {"EMPTY"}, loaded : SUBSET Symbols,
            completed : SUBSET Symbols, active : Symbols \cup {NoSymbol}, run : Nat,
            cutoff : Candles]

\* The tables and the session copies keep their types.
TypeOK ==
  /\ universes \in Seq(Universe)
  /\ display \in [universe : 0..Len(universes), symbol : Symbols \cup {NoSymbol}, version : Nat]
  /\ context \in [Sessions -> Context]

\* LOADED_NOT_SUBSET_OF_CONFIGURED and COMPLETED_NOT_SUBSET_OF_LOADED never happen
\* to the rows, and a symbol that failed is not offered as loaded.
Nested(universe) ==
  \A x \in Symbols : LET m == universe.members[x] IN
     /\ m.loaded => x \in Range(universe.order)
     /\ m.completed => m.loaded
     /\ m.failed => ~m.loaded
SymbolsAreNested == \A u \in DOMAIN universes : Nested(universes[u])

\* A session's copy, however old, is always one validate_symbol_context accepts,
\* so get_global_symbol_context never replaces it by a newer one.
CopiesAreValid ==
  \A s \in Sessions : LET c == context[s] IN
     /\ c.completed \subseteq c.loaded
     /\ c.universe # 0 => /\ c.universe \in DOMAIN universes
                          /\ c.loaded \subseteq Configured(c.universe)
     /\ c.active # NoSymbol => c.active \in Options(c.loaded, c.completed)

\* The display row carries the selection_version of the universe it names, so the
\* selection hash of the universe changes with every choice.
VersionsAgree ==
  display.universe # 0 => display.version = universes[display.universe].version
=============================================================================
