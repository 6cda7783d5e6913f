-------------------------- MODULE BuildWorkerProps --------------------------
(***************************************************************************)
(* What the resumable build promises.  BuildWorkerProofs proves the safety *)
(* properties for every number of workers, jobs, symbols and windows: the  *)
(* durability ones whatever faults occur, the others when no live worker   *)
(* is taken for dead and no running job is resumed.  MCBuildWorker checks  *)
(* all of them, and the settling of jobs, on small instances.              *)
(***************************************************************************)
EXTENDS BuildWorker

\* Every variable has the shape the code gives it.
TypeOK ==
  /\ row \in [Jobs -> Row] /\ stale \subseteq Jobs
  /\ stored \subseteq Keys /\ marked \subseteq Keys
  /\ corrupt \subseteq Keys /\ lost \subseteq Keys
  /\ pc \in [Workers -> Phases]
  /\ job \in [Workers -> Jobs]
  /\ sym \in [Workers -> 1..(NSymbols + 1)]
  /\ win \in [Workers -> 1..(NWindows + 1)]
  /\ prog \in [Workers -> Progress]
  /\ man \in [Workers -> Manifest]
  /\ verdict \in [Workers -> Settled]
  /\ faults \in 0..MaxFaults /\ clicks \in 0..MaxClicks

\* Inside the loops a worker's positions name a symbol and a window. With this
\* the types are inductive.
InLoop ==
  \A w \in Workers :
     /\ pc[w] \in {"chunk", "work", "save"} => sym[w] \in Symbols
     /\ pc[w] \in {"work", "save"} => win[w] \in Windows
Typed == TypeOK /\ InLoop

\* What the bucket has been given: present, or lost by the bucket itself.
Given == Present \cup lost

\* A checkpoint never runs ahead of the bucket: a window recorded as completed
\* in a job row was put first, whoever wrote the row (a worker that a stale
\* recovery replaced included) and wherever a crash fell.
CheckpointIsDurable ==
  \A j \in Jobs, s \in Symbols : {s} \X row[j].prog[s].done \subseteq Given

\* A job shown as COMPLETED has every window of every symbol in the bucket,
\* even if a replaced worker wrote that status.
CompletedIsDurable ==
  \A j \in Jobs : row[j].status = "COMPLETED" => Keys \subseteq Given

\* Why: no copy of a job's progress, in a row or in a worker, claims a window
\* that was not put or a complete symbol that lacks one; and COMPLETED is
\* decided, and written, only when every window was put. This is inductive.
Backed(p, keys) ==
  \A s \in Symbols : /\ {s} \X p[s].done \subseteq keys
                     /\ p[s].status = "COMPLETE" => p[s].done = Windows
Durable ==
  /\ \A j \in Jobs : Backed(row[j].prog, Given)
  /\ \A w \in Workers : Backed(prog[w], Given)
  /\ \A w \in Workers : verdict[w] = "COMPLETED" => Keys \subseteq Given
  /\ CompletedIsDurable

\* Seen from outside, the build is DurableBuild: windows become durable one at
\* a time, and a job turns COMPLETED only when all of them are.
DB == INSTANCE DurableBuild
        WITH given <- Given, complete <- {j \in Jobs : row[j].status = "COMPLETED"}
ImplementsDurableBuild == DB!Spec

\* Every job settles, whatever crashes, stalls, store errors and second executors
\* it has been through, or is a queued job that the user has asked to stop (which
\* nobody claims: see StopIsHonoured).
JobSettles ==
  \A j \in Jobs :
     (row[j].status \in {"QUEUED", "RUNNING"})
        ~> (\/ row[j].status \in Settled
            \/ row[j].status = "QUEUED" /\ row[j].action = "STOP")
-----------------------------------------------------------------------------
(* With a failure detector that is never wrong (no "stall") and a user who *)
(* resumes only jobs that no worker executes                               *)

\* No two workers execute the same job.
OneExecutor ==
  \A v, w \in Workers :
     Executing(v) /\ Executing(w) /\ job[v] = job[w] => v = w

\* A COMPLETED job offers a full CSV, and of the windows with data it lacks only
\* those whose HEAD failed when the worker listed the chunks of this very CSV.
\* (_sync_candle_manifest leaves such a window out without a word; nothing else
\* does: no failed fetch, crash, earlier export or chunk that was not seen before.)
CompletedCsvIsWhole ==
  \A j \in Jobs : row[j].status = "COMPLETED" =>
     /\ row[j].man.full # {}
     /\ Keys \subseteq row[j].man.full \cup row[j].man.missed \cup marked \cup lost

\* Restarts, recoveries and resumes never lose a completed window of a job.
ProgressIsKept ==
  [][\A j \in Jobs, s \in Symbols : row[j].prog[s].done \subseteq row'[j].prog[s].done]_vars

\* A settled job is left alone until the user resumes it, but for one case: the
\* worker that wrote the verdict did not hear the answer, and writes FAILED over
\* it, be it COMPLETED. Nobody else does so, and the row keeps everything else:
\* the progress and the CSVs of the first verdict.
VerdictStands ==
  [][\A j \in Jobs : row[j].status \in Settled /\ row'[j].status # row[j].status
        => \/ row'[j].status = "QUEUED" /\ clicks' > clicks
           \/ /\ row'[j] = [row[j] EXCEPT !.status = "FAILED"]
              /\ \E w \in Workers : Executing(w) /\ job[w] = j /\ verdict[w] = "FAILED"]_vars

\* "Resume queued -- worker will continue from the last checkpoint": a queued
\* job leaves the queue only by being claimed; no worker that had it before
\* writes its verdict over it.
QueuedIsClaimed ==
  [][\A j \in Jobs : row[j].status = "QUEUED" /\ row'[j].status # "QUEUED"
        => row'[j].status = "RUNNING"]_vars

\* A Stop stays pending until the user resumes the job or nobody executes it: the
\* recovery, which withdraws it, never takes a job that a worker has in its hands.
StopStands ==
  [][\A j \in Jobs : row[j].action = "STOP" /\ row'[j].action # "STOP"
        => \/ clicks' > clicks
           \/ \A w \in Workers : Executing(w) => job[w] # j]_vars
-----------------------------------------------------------------------------
(* What the code's own words promise and the code does not keep            *)

\* "Stop requested -- worker will checkpoint and pause": a job asked to stop
\* settles, or the user resumes it.
StopIsHonoured ==
  \A j \in Jobs :
     (row[j].action = "STOP") ~> (row[j].status \in Settled \/ row[j].action # "STOP")
=============================================================================
