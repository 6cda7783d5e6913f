----------------------------- MODULE LocalBuild -----------------------------
(***************************************************************************)
(* The build on the LOCAL backend: a job row is a file, and update_job     *)
(* reads it, merges its patch and replaces it, without a lock. Between the *)
(* read and the replacement of one process any other may replace the file, *)
(* and its update is lost. Claims and recoveries read the file once more   *)
(* before that, to decide. BuildWorker has the details of the download.    *)
(***************************************************************************)
EXTENDS Naturals

CONSTANTS
  Workers,   \* worker processes
  Users,     \* sessions in which Stop and Resume can be pressed
  Launched,  \* the workers launched with BUILD_WORKER_ONCE; they may die, the others poll for ever
  NJobs, Nothing,
  NWindows,  \* chunk windows of a job, all its symbols together
  MaxFaults, MaxClicks \* bounds on crashes, stalls and failures, and on clicks

VARIABLES
  file,      \* file[j]: the row of job j
  held,      \* held[p]: what update_job is about to replace the file with
  stored,    \* windows with an object on disk; job rows are the only shared data
  pc,        \* where each worker is once its update is done
  job, win, done, \* the locals of execute_job: job, loop position, progress
  verdict,   \* the status that finish_job will write
  faults, clicks

local == <<job, win, done, verdict>>
bounds == <<faults, clicks>>
vars == <<file, held, stored, pc, local, bounds>>

ASSUME LocalConstants ==
  /\ NJobs \in Nat \ {0} /\ NWindows \in Nat \ {0} /\ MaxFaults \in Nat /\ MaxClicks \in Nat
  /\ Launched \subseteq Workers /\ Users \cap Workers = {}

Jobs == 1..NJobs
Windows == 1..NWindows
Procs == Workers \cup Users
Settled == {"COMPLETED", "PARTIAL", "FAILED", "PAUSED"}
Row == [status : {"QUEUED", "RUNNING"} \cup Settled, action : {"NONE", "STOP"},
        done : SUBSET Windows, beat : {"fresh", "old"}]
Update == [job : Jobs, row : Row]

NewJob == [status |-> "QUEUED", action |-> "NONE", done |-> {}, beat |-> "fresh"]

Init ==
  /\ file = [j \in Jobs |-> NewJob]
  /\ held = [p \in Procs |-> Nothing]
  /\ stored = {}
  /\ pc = [w \in Workers |-> "idle"]
  /\ job = [w \in Workers |-> 1]
  /\ win = [w \in Workers |-> 1] /\ done = [w \in Workers |-> {}]
  /\ verdict = [w \in Workers |-> "FAILED"]
  /\ faults = 0 /\ clicks = 0

\* The first half of update_job, and the second.
Merge(p, j, row) == held' = [held EXCEPT ![p] = [job |-> j, row |-> row]]

Replace(p) ==
  /\ held[p] # Nothing
  /\ file' = [file EXCEPT ![held[p].job] = held[p].row]
  /\ held' = [held EXCEPT ![p] = Nothing]
  /\ UNCHANGED <<stored, pc, local, bounds>>

\* Mutant: the recovery clears the request and leaves the row RUNNING.
Requeued_KeepsStatus(r) == [r EXCEPT !.action = "NONE"]

\* The patches of the functions that call update_job.
Requeued(r) == [r EXCEPT !.status = "QUEUED", !.action = "NONE"]
Claimed(r) == [r EXCEPT !.status = "RUNNING", !.beat = "fresh"]
Checkpointed(r, w) == [r EXCEPT !.done = done[w], !.beat = "fresh"]
Beaten(r) == [r EXCEPT !.beat = "fresh"]
Finished(r, w) == [r EXCEPT !.status = verdict[w], !.done = done[w], !.beat = "fresh"]
Stopped(r) == [r EXCEPT !.action = "STOP"]
Restored(r) == [r EXCEPT !.status = "QUEUED", !.action = "NONE"]

\* A worker goes on only when its update is done.
At(w, place) == pc[w] = place /\ held[w] = Nothing
Goto(w, place) == pc' = [pc EXCEPT ![w] = place]
Decide(w, v) == verdict' = [verdict EXCEPT ![w] = v]
Its(w) == file[job[w]]
StopRequested(w) == Its(w).action = "STOP"

Places == {"down", "idle", "recover", "claim", "begin", "window", "work", "save", "beat",
           "report", "export", "finish"}
InJob == {"begin", "window", "work", "save", "beat", "report", "export", "finish"}
Executing(w, j) == \/ job[w] = j /\ pc[w] \in InJob
                   \/ held[w] # Nothing /\ held[w].job = j

\* The locals of a call are gone with it.
Forget(w) ==
  /\ job' = [job EXCEPT ![w] = 1] /\ win' = [win EXCEPT ![w] = 1]
  /\ done' = [done EXCEPT ![w] = {}] /\ verdict' = [verdict EXCEPT ![w] = "FAILED"]

-----------------------------------------------------------------------------
(* main: recover, claim                                                    *)

\* recover_stale_jobs reads the row to judge its heartbeat, update_job reads it again.
Suspect(w) ==
  /\ At(w, "idle")
  /\ \E j \in Jobs : /\ file[j].status = "RUNNING" /\ file[j].beat = "old"
                     /\ job' = [job EXCEPT ![w] = j]
  /\ Goto(w, "recover")
  /\ UNCHANGED <<file, held, stored, win, done, verdict, bounds>>

Recover(w) ==
  /\ At(w, "recover")
  /\ Merge(w, job[w], Requeued(Its(w)))
  /\ Goto(w, "idle") /\ Forget(w)
  /\ UNCHANGED <<file, stored, bounds>>

\* The scan of _claim, and its update; a Stop does not keep a job from being claimed.
Scan(w) ==
  /\ At(w, "idle")
  /\ \E j \in Jobs : file[j].status = "QUEUED" /\ job' = [job EXCEPT ![w] = j]
  /\ Goto(w, "claim")
  /\ UNCHANGED <<file, held, stored, win, done, verdict, bounds>>

\* The claimed row, as merged, is the job that is executed.
Claim(w) ==
  /\ At(w, "claim")
  /\ Merge(w, job[w], Claimed(Its(w)))
  /\ done' = [done EXCEPT ![w] = Its(w).done] /\ win' = [win EXCEPT ![w] = 1]
  /\ Goto(w, "begin")
  /\ UNCHANGED <<file, stored, job, verdict, bounds>>

\* With BUILD_WORKER_ONCE, main returns when there is nothing to claim.
Exit(w) ==
  /\ At(w, "idle") /\ w \in Launched /\ \A j \in Jobs : file[j].status # "QUEUED"
  /\ Goto(w, "down")
  /\ UNCHANGED <<file, held, stored, local, bounds>>

-----------------------------------------------------------------------------
(* execute_job                                                             *)

\* update_checkpoint on the way from one place to the next.
Checkpoint(w, from, to) ==
  /\ At(w, from)
  /\ Merge(w, job[w], Checkpointed(Its(w), w))
  /\ Goto(w, to)

Begin(w) == Checkpoint(w, "begin", "window") /\ UNCHANGED <<file, stored, local, bounds>>

\* The stop flag is read before each window; a stop ends the loop with a checkpoint.
Window(w) ==
  /\ win[w] <= NWindows
  /\ \/ /\ ~StopRequested(w) /\ At(w, "window") /\ Goto(w, "work")
        /\ UNCHANGED <<held, win>>
     \/ /\ StopRequested(w) /\ Checkpoint(w, "window", "window")
        /\ win' = [win EXCEPT ![w] = NWindows + 1]
  /\ UNCHANGED <<file, stored, job, done, verdict, bounds>>

\* Mutant: a window that cannot be had is recorded as done.
Work_CountsFailures(w) ==
  /\ At(w, "work") /\ Goto(w, "save")
  /\ done' = [done EXCEPT ![w] = @ \cup {win[w]}]
  /\ \/ stored' = stored \cup {win[w]} /\ UNCHANGED faults
     \/ faults < MaxFaults /\ faults' = faults + 1 /\ UNCHANGED stored
  /\ UNCHANGED <<file, held, job, win, verdict, clicks>>

\* An object is put, or reused if it is there, or the window cannot be had.
Work(w) ==
  /\ At(w, "work") /\ Goto(w, "save")
  /\ \/ /\ stored' = stored \cup {win[w]}
        /\ done' = [done EXCEPT ![w] = @ \cup {win[w]}] /\ UNCHANGED faults
     \/ /\ win[w] \notin stored /\ faults < MaxFaults /\ faults' = faults + 1
        /\ UNCHANGED <<stored, done>>
  /\ UNCHANGED <<file, held, job, win, verdict, clicks>>

\* The checkpoint after a window, and the heartbeat, an update of its own.
Save(w) == Checkpoint(w, "save", "beat") /\ UNCHANGED <<file, stored, local, bounds>>

Beat(w) ==
  /\ At(w, "beat")
  /\ Merge(w, job[w], Beaten(Its(w)))
  /\ win' = [win EXCEPT ![w] = @ + 1] /\ Goto(w, "window")
  /\ UNCHANGED <<file, stored, job, done, verdict, bounds>>

\* Mutant: whatever has been downloaded is exported as the whole.
Whole_Any(w) == done[w] # {}
Whole(w) == done[w] = Windows

\* After the loop: a stop, a full export, or a partial result.
End(w) ==
  /\ win[w] > NWindows
  /\ \/ /\ ~StopRequested(w) /\ Whole(w) /\ Checkpoint(w, "window", "report")
        /\ UNCHANGED verdict
     \/ /\ StopRequested(w) \/ ~Whole(w)
        /\ At(w, "window") /\ Goto(w, "finish")
        /\ \E v \in IF StopRequested(w) THEN {"PAUSED"} ELSE {"PARTIAL", "FAILED"} : Decide(w, v)
        /\ UNCHANGED held
  /\ UNCHANGED <<file, stored, job, win, done, bounds>>

\* raw_export_progress, here once, and the end of the export.
Report(w) == Checkpoint(w, "report", "export") /\ UNCHANGED <<file, stored, local, bounds>>

Export(w) ==
  /\ At(w, "export") /\ Goto(w, "finish")
  /\ Decide(w, IF StopRequested(w) THEN "PAUSED" ELSE "COMPLETED")
  /\ UNCHANGED <<file, held, stored, job, win, done, bounds>>

Finish(w) ==
  /\ At(w, "finish")
  /\ Merge(w, job[w], Finished(Its(w), w))
  /\ Goto(w, "idle") /\ Forget(w)
  /\ UNCHANGED <<file, stored, bounds>>

-----------------------------------------------------------------------------
(* The user, faults and time                                               *)

Click(u, j, row) ==
  /\ held[u] = Nothing
  /\ clicks < MaxClicks /\ clicks' = clicks + 1
  /\ Merge(u, j, row)
  /\ UNCHANGED <<file, stored, pc, local, faults>>

Stop(u, j) == Click(u, j, Stopped(file[j]))
Resume(u, j) == Click(u, j, Restored(file[j]))

Fault == faults < MaxFaults /\ faults' = faults + 1

\* An exception inside execute_job.
Raise(w) ==
  /\ Fault
  /\ pc[w] \in InJob /\ held[w] = Nothing
  /\ Decide(w, "FAILED") /\ Goto(w, "finish")
  /\ UNCHANGED <<file, held, stored, job, win, done, clicks>>

\* A worker dies, in the middle of an update too, and the user may launch it again.
Crash(w) ==
  /\ Fault
  /\ w \in Launched /\ pc[w] # "down" /\ Goto(w, "down") /\ Forget(w)
  /\ held' = [held EXCEPT ![w] = Nothing]
  /\ UNCHANGED <<file, stored, clicks>>

Launch(w) ==
  /\ pc[w] = "down" /\ Goto(w, "idle")
  /\ UNCHANGED <<file, held, stored, local, bounds>>

\* Nobody works on a RUNNING row, or somebody does and is silent for that long.
HeartbeatAges(j) ==
  /\ file[j].status = "RUNNING" /\ file[j].beat = "fresh"
  /\ \/ (\A w \in Workers : ~Executing(w, j)) /\ UNCHANGED faults
     \/ Fault
  /\ file' = [file EXCEPT ![j].beat = "old"]
  /\ UNCHANGED <<held, stored, pc, local, clicks>>

-----------------------------------------------------------------------------
Poll(w) == Suspect(w) \/ Recover(w) \/ Scan(w) \/ Claim(w)
Execute(w) ==
  \/ Begin(w) \/ Window(w) \/ Work(w) \/ Save(w) \/ Beat(w) \/ End(w) \/ Report(w) \/ Export(w)
  \/ Finish(w)

Next ==
  \/ \E p \in Procs : Replace(p)
  \/ \E w \in Workers : Poll(w) \/ Execute(w) \/ Exit(w) \/ Raise(w) \/ Crash(w) \/ Launch(w)
  \/ \E u \in Users, j \in Jobs : Stop(u, j) \/ Resume(u, j)
  \/ \E j \in Jobs : HeartbeatAges(j)

Spec == Init /\ [][Next]_vars

\* A worker polls while it lives and executes what it claims, an update that has begun
\* is written, and time passes. Nobody has to launch a worker again or to click.
FairSpec ==
  /\ Spec
  /\ \A w \in Workers : WF_vars(Poll(w) \/ Execute(w))
  /\ \A p \in Procs : WF_vars(Replace(p))
  /\ \A j \in Jobs : WF_vars(HeartbeatAges(j))
-----------------------------------------------------------------------------
(* Properties                                                              *)

TypeOK ==
  /\ file \in [Jobs -> Row] /\ held \in [Procs -> Update \cup {Nothing}]
  /\ stored \subseteq Windows /\ pc \in [Workers -> Places] /\ job \in [Workers -> Jobs]
  /\ win \in [Workers -> 1..(NWindows + 1)] /\ done \in [Workers -> SUBSET Windows]
  /\ verdict \in [Workers -> Settled] /\ faults \in Nat /\ clicks \in Nat

\* No lost update makes a row claim more than the disk holds.
CheckpointIsDurable == \A j \in Jobs : file[j].done \subseteq stored

\* Updates may be lost and jobs executed twice: seen from outside it is still
\* DurableBuild, and no job is COMPLETED before all of its windows are on disk.
DB == INSTANCE DurableBuild
        WITH Keys <- Windows, given <- stored,
             complete <- {j \in Jobs : file[j].status = "COMPLETED"}
ImplementsDurableBuild == DB!Spec

\* Every job settles, a job asked to stop while queued too, even when a Stop takes the
\* row of a finished job back to RUNNING.
JobSettles == \A j \in Jobs : (file[j].status \notin Settled) ~> (file[j].status \in Settled)
=============================================================================
