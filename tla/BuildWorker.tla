---------------------------- MODULE BuildWorker ----------------------------
(***************************************************************************)
(* The resumable raw-OHLC build: job rows in Supabase, chunk objects in    *)
(* the storage bucket, the UI's Stop and Resume, and the external workers  *)
(* that claim a job, download its chunks, export a CSV and finish the job. *)
(*                                                                         *)
(* One action is the code between two calls on the store: the row is one   *)
(* PATCH or one SQL function at a time, an object is one PUT at a time, so *)
(* every interleaving of workers, UI and crashes between them is here.     *)
(***************************************************************************)
EXTENDS Integers

CONSTANTS
  Workers,      \* worker processes
  NoWorker,     \* worker_id = null
  NJobs,        \* jobs, numbered by created_at
  NSymbols,     \* symbols of a job, in the order of job["symbols"]
  NWindows,     \* chunk windows of a symbol
  Faults,       \* the faults that may happen (see FaultKinds)
  MaxFaults,    \* bound on their number
  MaxClicks,    \* bound on Stop and Resume requests
  ResumeActive  \* may the user press Resume on a job that a worker executes?

\* A worker process dies; its heartbeat is late; a fetch or put of a window
\* fails; another store call raises; a HEAD is answered with something other
\* than 200; an object turns unreadable; the bucket loses an object. A call
\* that fails may have been applied all the same, its answer lost.
FaultKinds == {"crash", "stall", "fetch", "store", "head", "corrupt", "lose"}

ASSUME ConstantsOK ==
  /\ NoWorker \notin Workers
  /\ NJobs \in Nat \ {0} /\ NSymbols \in Nat \ {0} /\ NWindows \in Nat \ {0}
  /\ Faults \subseteq FaultKinds
  /\ MaxFaults \in Nat /\ MaxClicks \in Nat
  /\ ResumeActive \in BOOLEAN

Jobs    == 1..NJobs
Symbols == 1..NSymbols
Windows == 1..NWindows
Keys    == Symbols \X Windows     \* _chunk_key: shared by every job

VARIABLES
  row,      \* row[j]: the build_jobs row
  stale,    \* jobs whose heartbeat_at is older than the stale limit
  stored,   \* keys with a chunk object in the bucket
  marked,   \* keys with an .empty marker in the bucket
  corrupt,  \* stored keys whose object cannot be read back
  lost,     \* keys the bucket lost and nobody has written since
  pc,       \* where each worker process is
  job,      \* job[w]: the claimed job
  sym, win, \* loop positions in execute_job and _download_symbol_chunks
  prog,     \* prog[w]: the worker's copy of symbols_progress
  man,      \* man[w]: its copy of result_manifest
  verdict,  \* the status finish_job will write
  faults, clicks

bucket == <<stored, marked, corrupt, lost>>
local  == <<job, sym, win, prog, man, verdict>>
bounds == <<faults, clicks>>
vars   == <<row, stale, bucket, pc, local, bounds>>

Settled   == {"COMPLETED", "PARTIAL", "FAILED", "PAUSED"}
JobStatus == {"QUEUED", "RUNNING"} \cup Settled
SymStatus == {"WAITING", "RUNNING", "PAUSED", "FAILED", "COMPLETE"}
Phases    == {"down", "idle", "begin", "symbol", "chunk", "work", "save",
              "full", "partial", "finish"}

Progress == [Symbols -> [status : SymStatus, done : SUBSET Windows,
                         failed : SUBSET Windows, invalid : SUBSET Windows]]
\* chunks: candle_chunk entries; full, partial: what the CSV was built from.
\* missed is not in the code: the stored chunks whose HEAD failed when the
\* entries were listed. Only properties read it.
Manifest == [chunks : SUBSET Keys, missed : SUBSET Keys,
             full : SUBSET Keys, partial : SUBSET Keys]
Row == [status : JobStatus, action : {"NONE", "STOP"},
        owner : Workers \cup {NoWorker}, prog : Progress, man : Manifest]

NewProgress == [s \in Symbols |-> [status |-> "WAITING", done |-> {},
                                   failed |-> {}, invalid |-> {}]]
NewManifest == [chunks |-> {}, missed |-> {}, full |-> {}, partial |-> {}]
NewJob == [status |-> "QUEUED", action |-> "NONE", owner |-> NoWorker,
           prog |-> NewProgress, man |-> NewManifest]

Init ==
  /\ row = [j \in Jobs |-> NewJob]
  /\ stale = {} /\ stored = {} /\ marked = {} /\ corrupt = {} /\ lost = {}
  /\ pc = [w \in Workers |-> "idle"]
  /\ job = [w \in Workers |-> 1]
  /\ sym = [w \in Workers |-> 1] /\ win = [w \in Workers |-> 1]
  /\ prog = [w \in Workers |-> NewProgress]
  /\ man = [w \in Workers |-> NewManifest]
  /\ verdict = [w \in Workers |-> "FAILED"]
  /\ faults = 0 /\ clicks = 0

-----------------------------------------------------------------------------
(* Mutants: plausible slips in the definitions below, used by no action    *)

Rejected_CountedAnyway(p, c, done) ==
  [status |-> "FAILED", done |-> done \cup {c},
   failed |-> p.failed \cup {c}, invalid |-> p.invalid \cup {c}]
Checkpointed_ClearsAction(r, w, p, m) ==
  [r EXCEPT !.prog = p, !.man = m, !.owner = w, !.action = "NONE"]
Resumed_FromScratch(r) == NewProgress
Requeued_OwnerOnly(r) == [r EXCEPT !.owner = NoWorker]
Overdue_AnyRunning(j) == row[j].status = "RUNNING"
Claimable_IgnoresRunning ==
  {j \in Jobs : row[j].status \in {"QUEUED", "RUNNING"} /\ row[j].action # "STOP"}
Claimable_RetriesFailed ==
  {j \in Jobs : row[j].status \in {"QUEUED", "FAILED"} /\ row[j].action # "STOP"}
Downloaded_NotFailed(p) == {s \in Symbols : p[s].status # "FAILED"}
SyncedChunks_ButLast(p) ==
  {k \in stored : k[2] \in p[k[1]].done /\ k[2] < NWindows}
ShortVerdict_Completed(p) ==
  IF \A s \in Symbols : p[s].done = {} THEN "FAILED" ELSE "COMPLETED"

-----------------------------------------------------------------------------
(* What the code reads and writes                                          *)

Present == stored \cup marked

Fault(kind) == kind \in Faults /\ faults < MaxFaults /\ faults' = faults + 1

\* object_exists takes every HEAD that is not answered with 200 for a missing
\* object: the keys of which a call may see nothing, and what that costs.
Unseen(keys) ==
  IF "head" \in Faults /\ faults < MaxFaults THEN SUBSET keys ELSE {{}}
Missed(hidden) == faults' = IF hidden = {} THEN faults ELSE faults + 1

Put(k) ==
  /\ stored' = stored \cup {k} /\ corrupt' = corrupt \ {k} /\ lost' = lost \ {k}
  /\ UNCHANGED marked
PutMarker(k) ==
  /\ marked' = marked \cup {k} /\ lost' = lost \ {k}
  /\ UNCHANGED <<stored, corrupt>>

StopRequested(w) == row[job[w]].action = "STOP"
Executing(w) == pc[w] \notin {"down", "idle"}
Goto(w, phase) == pc' = [pc EXCEPT ![w] = phase]
Decide(w, v) == verdict' = [verdict EXCEPT ![w] = v]
SetSymbol(w, s, p) == prog' = [prog EXCEPT ![w] = [@ EXCEPT ![s] = p]]

\* execute_job returns, or the process dies: its local variables are gone.
Forget(w) ==
  /\ job' = [job EXCEPT ![w] = 1]
  /\ sym' = [sym EXCEPT ![w] = 1] /\ win' = [win EXCEPT ![w] = 1]
  /\ prog' = [prog EXCEPT ![w] = NewProgress]
  /\ man' = [man EXCEPT ![w] = NewManifest]
  /\ verdict' = [verdict EXCEPT ![w] = "FAILED"]

\* The patches of a row, one for each function that calls update_job.
Checkpointed(r, w, p, m) == [r EXCEPT !.prog = p, !.man = m, !.owner = w]
Claimed(r, w)            == [r EXCEPT !.status = "RUNNING", !.owner = w]
Finished(r, v, p, m)     == [r EXCEPT !.status = v, !.owner = NoWorker,
                                      !.prog = p, !.man = m]
Requeued(r) == [r EXCEPT !.status = "QUEUED", !.action = "NONE", !.owner = NoWorker]
Stopped(r)  == [r EXCEPT !.action = "STOP"]
Restored(r) == [r EXCEPT !.status = "QUEUED", !.action = "NONE"]

\* update_checkpoint: progress and manifest replace the row's, worker_id is
\* written again and the heartbeat renewed; status and action are not touched.
Checkpoint(w, p, m) ==
  /\ row' = [row EXCEPT ![job[w]] = Checkpointed(@, w, p, m)]
  /\ stale' = stale \ {job[w]}

\* A chunk that is now durable, and a chunk that could not be had. The symbol
\* is COMPLETE when nothing failed and len(completed_keys) = len(windows).
Saved(p, c) ==
  LET failed == p.failed \ {c}
      done   == p.done \cup {c}
  IN [status  |-> IF failed = {} /\ done = Windows THEN "COMPLETE" ELSE "RUNNING",
      done    |-> done, failed |-> failed, invalid |-> p.invalid \ {c}]
Rejected(p, c, done) ==
  [status |-> "FAILED", done |-> done,
   failed |-> p.failed \cup {c}, invalid |-> p.invalid \cup {c}]

\* A stop leaves a symbol for later; finalize rejects a chunk it cannot read.
PausedSymbol(p) == [p EXCEPT !.status = "PAUSED"]
RejectedByExport(p, c) == [p EXCEPT !.status = "FAILED", !.invalid = @ \cup {c}]

\* _job_progress: a claimed job goes on from its row.
Resumed(r) == r.prog

\* A finished symbol is skipped only after its objects are seen in the bucket.
Trusted(p, s, hidden) ==
  /\ p.status = "COMPLETE" /\ p.invalid = {} /\ p.done = Windows
  /\ {s} \X Windows \subseteq Present \ hidden

SyncedChunks(p) == {k \in stored : k[2] \in p[k[1]].done}
\* The manifest after _sync_candle_manifest and after each kind of export: a
\* full CSV replaces a partial one.
Synced(m, keys, hidden) ==
  [m EXCEPT !.chunks = keys \ hidden, !.missed = keys \cap hidden]
FullExport(m, keys)     == [m EXCEPT !.full = keys, !.partial = {}]
PartialExport(m, keys)  == [m EXCEPT !.partial = keys]

Downloaded(p)   == {s \in Symbols : p[s].status = "COMPLETE"}
ShortVerdict(p) == IF Downloaded(p) = {} THEN "FAILED" ELSE "PARTIAL"

-----------------------------------------------------------------------------
(* The worker's main loop                                                  *)

\* requeue_stale_build_jobs, called at the top of the loop.
Overdue(j) == j \in stale /\ row[j].status = "RUNNING"

Recover(w) ==
  /\ pc[w] = "idle"
  /\ \E j \in Jobs : Overdue(j)
  /\ row' = [j \in Jobs |-> IF Overdue(j) THEN Requeued(row[j]) ELSE row[j]]
  /\ UNCHANGED <<stale, bucket, pc, local, bounds>>

Claimable == {j \in Jobs : row[j].status = "QUEUED" /\ row[j].action # "STOP"}

\* claim_next_build_job: the oldest job of the queue.
TakeRow(w, j) ==
  /\ \A i \in Claimable : j <= i                   \* order by created_at
  /\ row' = [row EXCEPT ![j] = Claimed(@, w)]
  /\ stale' = stale \ {j}

\* execute_job copies the progress of the claimed row.
Claim(w) ==
  /\ pc[w] = "idle"
  /\ \E j \in Claimable :
       /\ TakeRow(w, j)
       /\ job' = [job EXCEPT ![w] = j]
       /\ prog' = [prog EXCEPT ![w] = Resumed(row[j])]
       /\ man' = [man EXCEPT ![w] = row[j].man]
  /\ Goto(w, "begin")
  /\ UNCHANGED <<bucket, sym, win, verdict, bounds>>

-----------------------------------------------------------------------------
(* execute_job, Stage A                                                    *)

Begin(w) ==
  /\ pc[w] = "begin"
  /\ Checkpoint(w, prog[w], man[w])
  /\ sym' = [sym EXCEPT ![w] = 1]
  /\ Goto(w, "symbol")
  /\ UNCHANGED <<bucket, job, win, prog, man, verdict, bounds>>

StartSymbol(w) ==
  /\ pc[w] = "symbol" /\ sym[w] <= NSymbols
  /\ \/ /\ StopRequested(w)
        /\ Decide(w, "PAUSED") /\ Goto(w, "finish")
        /\ UNCHANGED <<sym, win, faults>>
     \/ /\ ~StopRequested(w)
        /\ \E hidden \in Unseen({sym[w]} \X Windows) :
             /\ Missed(hidden)
             /\ IF Trusted(prog[w][sym[w]], sym[w], hidden)
                THEN sym' = [sym EXCEPT ![w] = @ + 1] /\ UNCHANGED <<pc, win>>
                ELSE win' = [win EXCEPT ![w] = 1] /\ Goto(w, "chunk") /\ UNCHANGED sym
        /\ UNCHANGED verdict
  /\ UNCHANGED <<row, stale, bucket, job, prog, man, clicks>>

\* The stop flag is read before each window; a paused symbol is checkpointed
\* and the loop over symbols goes on.
NextWindow(w) ==
  /\ pc[w] = "chunk" /\ win[w] <= NWindows
  /\ \/ /\ ~StopRequested(w)
        /\ Goto(w, "work")
        /\ UNCHANGED <<row, stale, sym, prog>>
     \/ /\ StopRequested(w)
        /\ SetSymbol(w, sym[w], PausedSymbol(prog[w][sym[w]]))
        /\ Checkpoint(w, prog'[w], man[w])
        /\ sym' = [sym EXCEPT ![w] = @ + 1]
        /\ Goto(w, "symbol")
  /\ UNCHANGED <<bucket, job, win, man, verdict, bounds>>

\* One window: reuse a durable object, or fetch and put one, also over an
\* object that was not seen. A chunk that was never read by this job is read,
\* if it is seen then, and rejected if it cannot be. A put that fails may have
\* stored the chunk or the marker.
Work(w) ==
  /\ pc[w] = "work"
  /\ LET k == <<sym[w], win[w]>>
         p == prog[w][sym[w]]
         reusable == win[w] \notin p.invalid /\ k \in Present
         unreadable == k \in corrupt /\ win[w] \notin p.done
         Becomes(q) == SetSymbol(w, sym[w], q)
     IN \/ /\ reusable
           /\ \/ ~unreadable /\ UNCHANGED faults
              \/ unreadable /\ Fault("head")
           /\ Becomes(Saved(p, win[w]))
           /\ UNCHANGED bucket
        \/ /\ reusable /\ unreadable
           /\ Becomes(Rejected(p, win[w], p.done \cup {win[w]}))
           /\ UNCHANGED <<bucket, faults>>
        \/ /\ \/ ~reusable /\ UNCHANGED faults
              \/ reusable /\ Fault("head")
           /\ Put(k) \/ PutMarker(k)          \* data, or none in the window
           /\ Becomes(Saved(p, win[w]))
        \/ /\ \/ ~reusable /\ Fault("fetch")
              \/ reusable /\ "fetch" \in Faults /\ Fault("head")
           /\ UNCHANGED bucket \/ Put(k) \/ PutMarker(k)
           /\ Becomes(Rejected(p, win[w], p.done))
  /\ Goto(w, "save")
  /\ UNCHANGED <<row, stale, job, sym, win, man, verdict, clicks>>

\* update_checkpoint without result_manifest, then heartbeat.
Save(w) ==
  /\ pc[w] = "save"
  /\ Checkpoint(w, prog[w], row[job[w]].man)
  /\ win' = [win EXCEPT ![w] = @ + 1]
  /\ Goto(w, "chunk")
  /\ UNCHANGED <<bucket, job, sym, prog, man, verdict, bounds>>

EndSymbol(w) ==
  /\ pc[w] = "chunk" /\ win[w] > NWindows
  /\ LET p == prog[w][sym[w]] IN
       IF p.status = "COMPLETE" /\ p.failed = {}
       THEN UNCHANGED <<row, stale>>
       ELSE Checkpoint(w, prog[w], man[w])
  /\ sym' = [sym EXCEPT ![w] = @ + 1]
  /\ Goto(w, "symbol")
  /\ UNCHANGED <<bucket, job, win, prog, man, verdict, bounds>>

-----------------------------------------------------------------------------
(* execute_job, the raw export                                             *)

\* _sync_candle_manifest, the stop check after it, and the choice of export.
Sync(w) ==
  /\ pc[w] = "symbol" /\ sym[w] > NSymbols
  /\ LET keys == SyncedChunks(prog[w])
     IN \E hidden \in Unseen(keys) :
          Missed(hidden) /\ man' = [man EXCEPT ![w] = Synced(@, keys, hidden)]
  /\ \/ /\ StopRequested(w)
        /\ Decide(w, "PAUSED") /\ Goto(w, "partial")
        /\ UNCHANGED <<row, stale>>
     \/ /\ ~StopRequested(w) /\ Downloaded(prog[w]) = Symbols
        /\ Decide(w, "COMPLETED") /\ Goto(w, "full")
        /\ Checkpoint(w, prog[w], man'[w])
     \/ /\ ~StopRequested(w) /\ Downloaded(prog[w]) # Symbols
        /\ Decide(w, ShortVerdict(prog[w])) /\ Goto(w, "partial")
        /\ UNCHANGED <<row, stale>>
  /\ UNCHANGED <<bucket, job, sym, win, prog, clicks>>

\* on_progress during an export.
ReportExport(w) ==
  /\ \/ pc[w] = "full"
     \/ pc[w] = "partial" /\ verdict[w] # "PAUSED"
  /\ Checkpoint(w, prog[w], man[w])
  /\ UNCHANGED <<bucket, pc, local, bounds>>

Unreadable(keys) == {k \in keys : k \in corrupt \/ k \notin stored}

\* finalize(raw=True, gap_ok=True): an export of the same chunks is reused
\* unread if its file is seen; otherwise every chunk is read, and one that is
\* corrupt is recorded.
ExportFull(w) ==
  /\ pc[w] = "full"
  /\ LET chunks == man[w].chunks
         exported == chunks # {} /\ man[w].full = chunks
     IN \/ /\ exported
           /\ UNCHANGED <<prog, man, verdict, faults>>
        \/ /\ \/ ~exported /\ UNCHANGED faults
              \/ exported /\ Fault("head")
           /\ \/ /\ chunks # {} /\ Unreadable(chunks) = {} /\ ~StopRequested(w)
                 /\ man' = [man EXCEPT ![w] = FullExport(@, chunks)]
                 /\ UNCHANGED <<prog, verdict>>
              \/ /\ chunks # {} /\ StopRequested(w)     \* InterruptedError
                 /\ Decide(w, "PAUSED")
                 /\ UNCHANGED <<prog, man>>
              \/ /\ \/ chunks = {}
                    \/ Unreadable(chunks) # corrupt \cap chunks
                 /\ Decide(w, "FAILED")
                 /\ UNCHANGED <<prog, man>>
              \/ /\ \E k \in corrupt \cap chunks :      \* ArtifactCorruptionError
                      SetSymbol(w, k[1], RejectedByExport(prog[w][k[1]], k[2]))
                 /\ Decide(w, "FAILED")
                 /\ UNCHANGED man
  /\ Goto(w, "finish")
  /\ UNCHANGED <<row, stale, bucket, job, sym, win, clicks>>

\* _publish_raw_partial_csv lists the chunks again and never raises: a partial
\* CSV, or none.
ExportPartial(w) ==
  /\ pc[w] = "partial"
  /\ LET keys == SyncedChunks(prog[w])
         stopped == StopRequested(w) /\ verdict[w] # "PAUSED"
     IN \E hidden \in Unseen(keys) :
          LET m == Synced(man[w], keys, hidden)
              readable == m.chunks # {} /\ Unreadable(m.chunks) = {}
          IN /\ Missed(hidden)
             /\ man' = [man EXCEPT ![w] = IF readable /\ ~stopped
                                          THEN PartialExport(m, m.chunks) ELSE m]
  /\ Goto(w, "finish")
  /\ UNCHANGED <<row, stale, bucket, job, sym, win, prog, verdict, clicks>>

\* finish_job
WriteVerdict(w) ==
  /\ row' = [row EXCEPT ![job[w]] = Finished(@, verdict[w], prog[w], man[w])]
  /\ stale' = stale \ {job[w]}

Finish(w) ==
  /\ pc[w] = "finish"
  /\ WriteVerdict(w)
  /\ Goto(w, "idle") /\ Forget(w)
  /\ UNCHANGED <<bucket, bounds>>

-----------------------------------------------------------------------------
(* The user                                                                *)

Stop(j) ==
  /\ clicks < MaxClicks /\ clicks' = clicks + 1
  /\ row' = [row EXCEPT ![j] = Stopped(@)]
  /\ UNCHANGED <<stale, bucket, pc, local, faults>>

Resume(j) ==
  /\ clicks < MaxClicks /\ clicks' = clicks + 1
  /\ ResumeActive \/ \A w \in Workers : ~(Executing(w) /\ job[w] = j)
  /\ row' = [row EXCEPT ![j] = Restored(@)]
  /\ UNCHANGED <<stale, bucket, pc, local, faults>>

-----------------------------------------------------------------------------
(* Faults and time                                                         *)

\* Only while executing: an idle worker that dies is one that does not move.
Crash(w) ==
  /\ Fault("crash")
  /\ Executing(w) /\ Goto(w, "down") /\ Forget(w)
  /\ UNCHANGED <<row, stale, bucket, clicks>>

Restart(w) ==
  /\ pc[w] = "down" /\ Goto(w, "idle")
  /\ UNCHANGED <<row, stale, bucket, local, bounds>>

\* A store call raises outside the per-chunk handler (_publish_raw_partial_csv
\* swallows it). execute_job's last except clause finishes with FAILED, also
\* when the call was applied and only its reply was lost: the verdict itself,
\* or the marker of a window without data. (A checkpoint whose reply is lost is
\* the checkpoint's action and then this one.)
StoreError(w) ==
  /\ Fault("store")
  /\ Executing(w) /\ pc[w] # "partial"
  /\ \/ UNCHANGED <<row, stale, bucket>>
     \/ /\ pc[w] = "finish" /\ WriteVerdict(w)
        /\ UNCHANGED bucket
     \/ /\ pc[w] = "work" /\ PutMarker(<<sym[w], win[w]>>)
        /\ \/ <<sym[w], win[w]>> \notin Present
           \/ win[w] \in prog[w][sym[w]].invalid
        /\ UNCHANGED <<row, stale>>
  /\ Decide(w, "FAILED") /\ Goto(w, "finish")
  /\ UNCHANGED <<job, sym, win, prog, man, clicks>>

\* That finish raises too, or the client cannot be built: main finishes with the
\* row's own progress; when that raises, it goes on and the row stays as it is.
GiveUp(w) ==
  /\ Fault("store")
  /\ pc[w] \in {"begin", "finish"}
  /\ \/ /\ row' = [row EXCEPT ![job[w]] = Finished(@, "FAILED", @.prog, @.man)]
        /\ stale' = stale \ {job[w]}
     \/ UNCHANGED <<row, stale>>
  /\ Goto(w, "idle") /\ Forget(w)
  /\ UNCHANGED <<bucket, clicks>>

\* The claim was applied and its reply is lost: _claim answers None, and the
\* job is RUNNING in the hands of nobody.
ClaimUnheard(w) ==
  /\ Fault("store")
  /\ pc[w] = "idle"
  /\ \E j \in Claimable : TakeRow(w, j)
  /\ UNCHANGED <<bucket, pc, local, clicks>>

\* A RUNNING row's heartbeat passes the stale limit: because nobody works on
\* it, or because a live worker has been inside one call for that long.
HeartbeatAges(j) ==
  /\ row[j].status = "RUNNING" /\ j \notin stale
  /\ \/ /\ \A w \in Workers : ~(Executing(w) /\ job[w] = j)
        /\ UNCHANGED faults
     \/ Fault("stall")
  /\ stale' = stale \cup {j}
  /\ UNCHANGED <<row, bucket, pc, local, clicks>>

Corrupt(k) ==
  /\ Fault("corrupt")
  /\ k \in stored \ corrupt /\ corrupt' = corrupt \cup {k}
  /\ UNCHANGED <<row, stale, stored, marked, lost, pc, local, clicks>>

Lose(k) ==
  /\ Fault("lose")
  /\ k \in Present
  /\ stored' = stored \ {k} /\ marked' = marked \ {k}
  /\ corrupt' = corrupt \ {k} /\ lost' = lost \cup {k}
  /\ UNCHANGED <<row, stale, pc, local, clicks>>

-----------------------------------------------------------------------------

Execute(w) ==
  \/ Begin(w) \/ StartSymbol(w) \/ NextWindow(w) \/ Work(w) \/ Save(w)
  \/ EndSymbol(w) \/ Sync(w) \/ ExportFull(w) \/ ExportPartial(w) \/ Finish(w)

Next ==
  \/ \E w \in Workers : \/ Recover(w) \/ Claim(w) \/ Execute(w) \/ ReportExport(w)
                        \/ Crash(w) \/ Restart(w) \/ StoreError(w)
                        \/ GiveUp(w) \/ ClaimUnheard(w)
  \/ \E j \in Jobs : Stop(j) \/ Resume(j) \/ HeartbeatAges(j)
  \/ \E k \in Keys : Corrupt(k) \/ Lose(k)

Spec == Init /\ [][Next]_vars

\* main() loops for ever, a claimed job is executed to its end, a worker that
\* died is started again, and time passes. The user's clicks are not fair.
FairSpec ==
  /\ Spec
  /\ \A w \in Workers : WF_vars(Recover(w)) /\ WF_vars(Claim(w))
                        /\ WF_vars(Execute(w)) /\ WF_vars(Restart(w))
  /\ \A j \in Jobs : WF_vars(HeartbeatAges(j))
=============================================================================
