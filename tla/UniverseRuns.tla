---------------------------- MODULE UniverseRuns ----------------------------
(***************************************************************************)
(* Sessions that load, calculate and publish over one SymbolUniverse: the  *)
(* loader (multi_symbol_load_manager), the full run (run_orchestrator),    *)
(* Super Quick and the institutional refresh. Between two transactions of  *)
(* one session the others go on; a session itself runs one script at a     *)
(* time and keeps its own frames and its own copy of the universe.         *)
(***************************************************************************)
EXTENDS SymbolUniverse

CONSTANT MaxClicks \* bound on the operations sessions start

VARIABLES
  clicks, \* operations started
  now,    \* the last completed candle, latest_completed_candle()
  pc,     \* where each session is
  frames, \* frames[s]: the validated frames session s has loaded, by symbol
  target, \* latest_completed_candle_for_run_20260705 of each session, 0 if unset
  run,    \* the full run a session has recorded and not yet published
  runs    \* canonical_snapshots, and the identities of the other publishers

sessionVars == <<frames, target, run, runs>>
vars == <<universes, display, context, clicks, now, pc, sessionVars>>

Places == {"idle", "marking", "loading", "activating", "checked", "calculating",
           "recorded", "refreshing", "refreshed", "ranked"}

RInit ==
  /\ Init /\ clicks = 0
  /\ now \in Cutoffs /\ \A c \in Cutoffs : now <= c
  /\ pc = [s \in Sessions |-> "idle"]
  /\ frames = [s \in Sessions |-> [x \in Symbols |-> NoFrame]]
  /\ target = [s \in Sessions |-> 0]
  /\ run = [s \in Sessions |-> 0]
  /\ runs = <<>>

\* A session starts an operation when a user clicks, and then goes on by itself.
Click(s, to) ==
  /\ pc[s] = "idle" /\ clicks < MaxClicks
  /\ clicks' = clicks + 1 /\ pc' = [pc EXCEPT ![s] = to]
Go(s, from, to) == pc[s] = from /\ pc' = [pc EXCEPT ![s] = to] /\ UNCHANGED clicks
Mine(s) == context[s].universe
Held(s, X) == {x \in X : frames[s][x] # NoFrame}

-----------------------------------------------------------------------------
(* Loading                                                                 *)

\* publish_canonical_universe
StartLoad(s) ==
  /\ Click(s, "marking")
  /\ \E order \in Configurations : ConfigureUniverse(s, order)
  /\ UNCHANGED <<now, sessionVars>>

\* prepare_market_data_for_run marks the universe before it asks a provider.
MarkLoading(s) ==
  /\ Go(s, "marking", "loading") /\ Mark(s, Mine(s), "LOADING")
  /\ UNCHANGED <<now, sessionVars>>

\* The answers are in: a selector asks for part of the universe, a provider or
\* the cache answers for part of that, and frames of earlier loads are kept.
FinishLoad(s) ==
  /\ Go(s, "loading", "idle")
  /\ \E requested \in SUBSET Configured(Mine(s)) \ {{}} : \E got \in SUBSET requested :
     \E fetched \in [got -> {f \in Frames : f.candle <= now}] :
       /\ PublishLoaded(s, Mine(s), fetched, requested \ got)
       /\ frames' = [frames EXCEPT ![s] =
                       [x \in Symbols |-> IF x \in got THEN fetched[x] ELSE @[x]]]
  /\ target' = [target EXCEPT ![s] = universes[Mine(s)].cutoff]
  /\ UNCHANGED <<now, run, runs>>

\* activate_loaded_universe_for_run configures again, then publishes what the
\* session holds in _publish_loaded_to_global_context.
StartActivate(s) ==
  /\ Held(s, Symbols) # {} /\ Click(s, "activating")
  /\ \E order \in Configurations : ConfigureUniverse(s, order)
  /\ UNCHANGED <<now, sessionVars>>

PublishHeld(s) ==
  LET held == Held(s, Configured(Mine(s))) IN
  PublishLoaded(s, Mine(s), [x \in held |-> frames[s][x]], Configured(Mine(s)) \ held)

FinishActivate(s) ==
  Go(s, "activating", "idle") /\ PublishHeld(s) /\ UNCHANGED <<now, sessionVars>>

-----------------------------------------------------------------------------
(* The full run                                                            *)

\* MISSING_PREPARED_FRAME, SOURCE_DATA_HASH_MISMATCH, COMPLETED_CANDLE_MISMATCH
FrameMatches(s, x) ==
  /\ frames[s][x] # NoFrame
  /\ universes[Mine(s)].members[x].hash = frames[s][x]
  /\ universes[Mine(s)].members[x].candle = frames[s][x].candle

\* execute_existing_multi_symbol_run compares the session's frames with the rows,
\* on a connection of its own, for the symbols its copy calls loaded.
Check(s) ==
  /\ context[s].loaded # {} /\ Click(s, "checked")
  /\ \A x \in context[s].loaded : FrameMatches(s, x)
  /\ UNCHANGED <<universeVars, now, sessionVars>>

MarkCalculating(s) ==
  /\ Go(s, "checked", "calculating") /\ Mark(s, Mine(s), "CALCULATING")
  /\ UNCHANGED <<now, sessionVars>>

NewRun(s, kind, X, cutoff) ==
  runs' = Append(runs, [kind |-> kind, universe |-> Mine(s), cutoff |-> cutoff,
                           frames |-> [x \in Held(s, X) |-> frames[s][x]]])

\* Mutant: the index is read before the row is appended.
Record_StaleIndex(s) ==
  /\ context[s].loaded # {} /\ Go(s, "calculating", "recorded")
  /\ NewRun(s, "full", context[s].loaded, IF target[s] = 0 THEN now ELSE target[s])
  /\ run' = [run EXCEPT ![s] = Len(runs)]
  /\ UNCHANGED <<universeVars, now, frames, target>>

\* finalize_canonical_run commits the snapshot as COMPLETED before it decides
\* whether the generation may be published.
Record(s) ==
  /\ context[s].loaded # {} /\ Go(s, "calculating", "recorded")
  /\ NewRun(s, "full", context[s].loaded, IF target[s] = 0 THEN now ELSE target[s])
  /\ run' = [run EXCEPT ![s] = Len(runs) + 1]
  /\ UNCHANGED <<universeVars, now, frames, target>>

\* Mutant: finalize_canonical_run without its COMPLETED_CANDLE_MISMATCH check.
SameCutoff_Unchecked(s, X) ==
  \A x \in X : frames[s][x] # NoFrame /\
    \A y \in X : frames[s][y].candle = frames[s][x].candle

\* GLOBAL_PUBLICATION_MISSING_EXACT_FRAME, _MIXED_COMPLETED_CANDLE_CUTOFFS,
\* _COMPLETED_CANDLE_MISMATCH
SameCutoff(s, X) ==
  \A x \in X : frames[s][x] # NoFrame /\ frames[s][x].candle = runs[run[s]].cutoff

Publish(s) ==
  LET X == context[s].loaded IN
  /\ Go(s, "recorded", "idle") /\ SameCutoff(s, X)
  /\ PublishCompleted(s, Mine(s), run[s],
       [x \in X |-> [candle |-> frames[s][x].candle, hash |-> frames[s][x]]],
       runs[run[s]].cutoff)
  /\ run' = [run EXCEPT ![s] = 0]
  /\ UNCHANGED <<now, frames, target, runs>>

\* Any of the checks raises, or the calculation does.
GiveUp(s) ==
  /\ pc[s] # "idle" /\ Go(s, pc[s], "idle")
  /\ run' = [run EXCEPT ![s] = 0]
  /\ UNCHANGED <<universeVars, now, frames, target, runs>>

-----------------------------------------------------------------------------
(* The other publishers                                                    *)

\* run_super_quick_field3, for the symbols the page asks for or all it has frames of:
\* frames are cut back to the oldest of their last candles, and the publication
\* carries no hash.
SuperQuick(s) ==
  \E held \in SUBSET Held(s, Symbols) : \E cutoff \in {frames[s][x].candle : x \in held} :
    /\ \A x \in held : cutoff <= frames[s][x].candle
    /\ Click(s, "idle")
    /\ NewRun(s, "quick", held, cutoff)
    /\ \E X \in SUBSET held \ {{}} :
         PublishCompleted(s, Mine(s), Len(runs) + 1,
           [x \in X |-> [candle |-> cutoff, hash |-> NoFrame]], cutoff)
    /\ UNCHANGED <<now, frames, target, run>>

\* publish_institutional_quant_run trusts the session's copy unless that copy
\* is published or configured otherwise.
StartRefresh(s) ==
  /\ Click(s, "refreshing")
  /\ \E order \in Configurations :
       IF Mine(s) = 0 \/ universes[Mine(s)].order # order \/ context[s].status = "PUBLISHED"
       THEN ConfigureUniverse(s, order) ELSE UNCHANGED universeVars
  /\ UNCHANGED <<now, sessionVars>>

RefreshLoaded(s) ==
  Go(s, "refreshing", "refreshed") /\ PublishHeld(s) /\ UNCHANGED <<now, sessionVars>>

RefreshCalculating(s) ==
  /\ Go(s, "refreshed", "ranked") /\ Mark(s, Mine(s), "CALCULATING")
  /\ UNCHANGED <<now, sessionVars>>

\* Symbols whose frames end at the chosen candle are complete; there may be none,
\* NEW_RUN_NOT_PUBLISHED_NO_COMPLETED_SYMBOLS_PREVIOUS_VALID_PRESERVED.
RefreshPublish(s) ==
  \E cutoff \in Cutoffs :
    LET X == {x \in Held(s, context[s].loaded) : frames[s][x].candle = cutoff} IN
    /\ X # {} /\ Go(s, "ranked", "idle")
    /\ NewRun(s, "refresh", X, cutoff)
    /\ PublishCompleted(s, Mine(s), Len(runs) + 1,
         [x \in X |-> [candle |-> cutoff, hash |-> frames[s][x]]], cutoff)
    /\ UNCHANGED <<now, frames, target, run>>

-----------------------------------------------------------------------------
\* The user of an idle session.
Choose(s) ==
  /\ Click(s, "idle")
  /\ Restore(s) \/ \E x \in Symbols : SelectDisplay(s, x)
  /\ UNCHANGED <<now, sessionVars>>

Tick ==
  /\ \E c \in Cutoffs : now < c /\ now' = c /\ \A d \in Cutoffs : now < d => c <= d
  /\ UNCHANGED <<universeVars, clicks, pc, sessionVars>>

RNext ==
  \/ \E s \in Sessions :
       \/ StartLoad(s) \/ MarkLoading(s) \/ FinishLoad(s)
       \/ StartActivate(s) \/ FinishActivate(s)
       \/ Check(s) \/ MarkCalculating(s) \/ Record(s) \/ Publish(s) \/ GiveUp(s)
       \/ SuperQuick(s)
       \/ StartRefresh(s) \/ RefreshLoaded(s) \/ RefreshCalculating(s) \/ RefreshPublish(s)
       \/ Choose(s)
  \/ Tick

Spec == RInit /\ [][RNext]_vars
-----------------------------------------------------------------------------
(* Properties                                                              *)

Run == [kind : {"full", "quick", "refresh"}, universe : Nat, cutoff : Candles,
        frames : UNION {[X -> Frames] : X \in SUBSET Symbols}]

\* The sessions' variables keep their types, and a recorded run exists.
SessionsOK ==
  /\ now \in Cutoffs /\ pc \in [Sessions -> Places]
  /\ frames \in [Sessions -> [Symbols -> Frames \cup {NoFrame}]]
  /\ target \in [Sessions -> Candles] /\ run \in [Sessions -> Nat]
  /\ runs \in Seq(Run)
  /\ \A s \in Sessions : pc[s] = "recorded" => run[s] \in DOMAIN runs

\* MIXED_COMPLETED_CANDLE_CUTOFFS, COMPLETED_CANDLE_MISMATCH: what a full run or a
\* refresh published is what it calculated, frame by frame and at one cutoff, even
\* when other sessions loaded in between.
PublishedIsCalculated ==
  \A u \in DOMAIN universes : universes[u].status = "PUBLISHED" =>
    LET r == runs[universes[u].run] IN
    /\ r.universe = u
    /\ r.kind # "quick" => \A x \in DOMAIN r.frames : LET m == universes[u].members[x] IN
         m.completed /\ m.hash = r.frames[x] /\ m.candle = universes[u].cutoff

\* SOURCE_DATA_HASH_MISMATCH: a publication never replaces the frame that another
\* session has loaded since the calculation began.
LoadsAreNotOverwritten ==
  [][\A u \in DOMAIN universes : \A x \in Symbols :
       universes'[u].run # universes[u].run
         => universes'[u].members[x].hash = universes[u].members[x].hash]_vars

\* "PREVIOUS_VALID_PRESERVED": a refresh that has published nothing yet leaves
\* what is published in place.
RefreshPreserves ==
  [][\A s \in Sessions, u \in DOMAIN universes :
       pc[s] = "refreshing" /\ pc'[s] = "refreshed" /\ universes[u].status = "PUBLISHED"
         => universes'[u].status = "PUBLISHED"]_vars
=============================================================================
