-------------------------- MODULE LocalBuildProofs --------------------------
(***************************************************************************)
(* On the LOCAL backend an update may be lost and a job executed twice.    *)
(* What keeps the rows truthful is that every row any process is about to  *)
(* write was truthful when it was merged, and that disks only fill.        *)
(***************************************************************************)
EXTENDS LocalBuild, TLAPS

\* The position of a worker in the loop names a window.
InLoop == \A w \in Workers : pc[w] \in {"work", "save", "beat"} => win[w] \in Windows

Typed == TypeOK /\ InLoop

LEMMA NWindowsIsNat == NWindows \in Nat /\ NWindows >= 1 /\ 1 \in Windows
  BY LocalConstants DEF Windows

LEMMA Positions == Windows \subseteq 1..(NWindows + 1) /\ 1 \in 1..(NWindows + 1)
  BY NWindowsIsNat DEF Windows

\* The patches keep the type of a row.
LEMMA PatchTypes ==
  ASSUME Typed, NEW r \in Row, NEW w \in Workers
  PROVE  /\ Requeued(r) \in Row /\ Claimed(r) \in Row /\ Checkpointed(r, w) \in Row
         /\ Beaten(r) \in Row /\ Finished(r, w) \in Row /\ Stopped(r) \in Row
         /\ Restored(r) \in Row
<1>1. done[w] \in SUBSET Windows /\ verdict[w] \in Settled
  BY DEF Typed, TypeOK
<1> QED
  BY <1>1 DEF Row, Requeued, Claimed, Checkpointed, Beaten, Finished, Stopped, Restored

LEMMA ItsRow == ASSUME Typed, NEW w \in Workers PROVE job[w] \in Jobs /\ Its(w) \in Row
  BY DEF Typed, TypeOK, Its

LEMMA WorkerIsProc == Workers \subseteq Procs /\ Users \subseteq Procs
  BY DEF Procs

LEMMA MergeTypes ==
  ASSUME Typed, NEW p \in Procs, NEW j \in Jobs, NEW r \in Row, Merge(p, j, r)
  PROVE  held' \in [Procs -> Update \cup {Nothing}]
<1>1. [job |-> j, row |-> r] \in Update
  BY DEF Update
<1> QED BY <1>1 DEF Merge, Typed, TypeOK

LEMMA GotoTypes ==
  ASSUME Typed, NEW w \in Workers, NEW to \in Places, Goto(w, to)
  PROVE  pc' \in [Workers -> Places]
  BY DEF Typed, TypeOK, Goto

LEMMA ForgetTypes ==
  ASSUME Typed, NEW w \in Workers, Forget(w)
  PROVE  /\ job' \in [Workers -> Jobs] /\ win' \in [Workers -> 1..(NWindows + 1)]
         /\ done' \in [Workers -> SUBSET Windows] /\ verdict' \in [Workers -> Settled]
<1>1. 1 \in Jobs
  BY LocalConstants DEF Jobs
<1> QED BY <1>1, Positions DEF Typed, TypeOK, Forget, Settled

LEMMA CheckpointTypes ==
  ASSUME Typed, NEW w \in Workers, NEW from, NEW to \in Places, Checkpoint(w, from, to)
  PROVE  held' \in [Procs -> Update \cup {Nothing}] /\ pc' \in [Workers -> Places]
  BY ItsRow, PatchTypes, MergeTypes, GotoTypes, WorkerIsProc DEF Checkpoint

LEMMA FaultTypes == ASSUME Typed, Fault PROVE faults' \in Nat
  BY DEF Typed, TypeOK, Fault

\* A worker that moves to a place outside the loop body, or keeps its window.
LEMMA LoopKeeps ==
  ASSUME Typed, NEW w \in Workers, NEW to \in Places, Goto(w, to),
         \A v \in Workers : v # w => win'[v] = win[v],
         to \in {"work", "save", "beat"} => win'[w] \in Windows
  PROVE  InLoop'
  BY DEF Typed, TypeOK, InLoop, Goto

LEMMA InitTyped == Init => Typed
<1> SUFFICES ASSUME Init PROVE Typed
  OBVIOUS
<1>1. 1 \in Jobs /\ 1 \in 1..(NWindows + 1)
  BY LocalConstants, Positions DEF Jobs
<1>2. NewJob \in Row
  BY DEF NewJob, Row
<1>3. TypeOK
  BY <1>1, <1>2 DEF Init, TypeOK, Settled, Places
<1>4. InLoop
  BY DEF Init, InLoop
<1> QED BY <1>3, <1>4 DEF Typed

LEMMA PollTyped == ASSUME Typed, NEW w \in Workers, Poll(w) PROVE Typed'
<1>1. CASE Suspect(w)
  <2>1. job' \in [Workers -> Jobs] /\ Goto(w, "recover")
    BY <1>1 DEF Suspect, Typed, TypeOK
  <2>2. InLoop' /\ pc' \in [Workers -> Places]
    BY <1>1, <2>1, LoopKeeps, GotoTypes DEF Suspect, Places
  <2> QED BY <1>1, <2>1, <2>2 DEF Suspect, Typed, TypeOK, bounds
<1>2. CASE Recover(w)
  <2>1. Goto(w, "idle") /\ Forget(w) /\ Merge(w, job[w], Requeued(Its(w)))
    BY <1>2 DEF Recover
  <2>2. held' \in [Procs -> Update \cup {Nothing}]
    BY <2>1, ItsRow, PatchTypes, MergeTypes, WorkerIsProc
  <2>3. pc' \in [Workers -> Places] /\ InLoop'
    BY <2>1, LoopKeeps, GotoTypes DEF Forget, Places, Typed, TypeOK
  <2> QED BY <1>2, <2>1, <2>2, <2>3, ForgetTypes DEF Recover, Typed, TypeOK, bounds
<1>3. CASE Scan(w)
  <2>1. job' \in [Workers -> Jobs] /\ Goto(w, "claim")
    BY <1>3 DEF Scan, Typed, TypeOK
  <2>2. InLoop' /\ pc' \in [Workers -> Places]
    BY <1>3, <2>1, LoopKeeps, GotoTypes DEF Scan, Places
  <2> QED BY <1>3, <2>1, <2>2 DEF Scan, Typed, TypeOK, bounds
<1>4. CASE Claim(w)
  <2>1. Goto(w, "begin") /\ Merge(w, job[w], Claimed(Its(w)))
    BY <1>4 DEF Claim
  <2>2. held' \in [Procs -> Update \cup {Nothing}]
    BY <2>1, ItsRow, PatchTypes, MergeTypes, WorkerIsProc
  <2>3. Its(w).done \in SUBSET Windows
    BY ItsRow DEF Row
  <2>4. done' \in [Workers -> SUBSET Windows] /\ win' \in [Workers -> 1..(NWindows + 1)]
    BY <1>4, <2>3, Positions DEF Claim, Typed, TypeOK
  <2>5. pc' \in [Workers -> Places] /\ InLoop'
    BY <1>4, <2>1, LoopKeeps, GotoTypes DEF Claim, Places, Typed, TypeOK
  <2> QED BY <1>4, <2>2, <2>4, <2>5 DEF Claim, Typed, TypeOK, bounds
<1> QED BY <1>1, <1>2, <1>3, <1>4 DEF Poll

LEMMA ExecuteTyped == ASSUME Typed, NEW w \in Workers, Execute(w) PROVE Typed'
<1>1. CASE Begin(w)
  <2>1. held' \in [Procs -> Update \cup {Nothing}] /\ pc' \in [Workers -> Places] /\ InLoop'
    BY <1>1, CheckpointTypes, LoopKeeps DEF Begin, Checkpoint, Places, local
  <2> QED BY <1>1, <2>1 DEF Begin, local, bounds, Typed, TypeOK
<1>2. CASE Window(w)
  <2>1. win[w] \in Windows /\ NWindows + 1 \in 1..(NWindows + 1)
    BY <1>2, NWindowsIsNat DEF Window, Windows, Typed, TypeOK
  <2>2. held' \in [Procs -> Update \cup {Nothing}] /\ pc' \in [Workers -> Places]
    <3>1. CASE ~StopRequested(w)
      BY <1>2, <3>1, GotoTypes DEF Window, Places, Typed, TypeOK
    <3>2. CASE StopRequested(w)
      BY <1>2, <3>2, CheckpointTypes DEF Window, Places
    <3> QED BY <3>1, <3>2
  <2>3. win' \in [Workers -> 1..(NWindows + 1)]
    BY <1>2, <2>1 DEF Window, Typed, TypeOK
  <2>4. InLoop'
    <3>1. CASE ~StopRequested(w)
      BY <1>2, <3>1, <2>1, LoopKeeps DEF Window, Places
    <3>2. CASE StopRequested(w)
      <4>1. Goto(w, "window") /\ \A v \in Workers : v # w => win'[v] = win[v]
        BY <1>2, <3>2 DEF Window, Checkpoint, Typed, TypeOK
      <4> QED BY <4>1, LoopKeeps DEF Places
    <3> QED BY <3>1, <3>2
  <2> QED BY <1>2, <2>2, <2>3, <2>4 DEF Window, bounds, Typed, TypeOK
<1>3. CASE Work(w)
  <2>1. win[w] \in Windows
    BY <1>3 DEF Work, At, Typed, InLoop
  <2>2. done' \in [Workers -> SUBSET Windows] /\ stored' \subseteq Windows
    BY <1>3, <2>1 DEF Work, Typed, TypeOK
  <2>3. faults' \in Nat
    BY <1>3 DEF Work, Typed, TypeOK
  <2>4. pc' \in [Workers -> Places] /\ InLoop'
    BY <1>3, <2>1, GotoTypes, LoopKeeps DEF Work, Places
  <2> QED BY <1>3, <2>2, <2>3, <2>4 DEF Work, Typed, TypeOK
<1>4. CASE Save(w)
  <2>1. win[w] \in Windows
    BY <1>4 DEF Save, Checkpoint, At, Typed, InLoop
  <2>2. held' \in [Procs -> Update \cup {Nothing}] /\ pc' \in [Workers -> Places] /\ InLoop'
    BY <1>4, <2>1, CheckpointTypes, LoopKeeps DEF Save, Checkpoint, Places, local
  <2> QED BY <1>4, <2>2 DEF Save, local, bounds, Typed, TypeOK
<1>5. CASE Beat(w)
  <2>1. win[w] \in Windows
    BY <1>5 DEF Beat, At, Typed, InLoop
  <2>2. win[w] + 1 \in 1..(NWindows + 1)
    BY <2>1, NWindowsIsNat DEF Windows
  <2>3. win' \in [Workers -> 1..(NWindows + 1)]
    BY <1>5, <2>2 DEF Beat, Typed, TypeOK
  <2>4. held' \in [Procs -> Update \cup {Nothing}]
    BY <1>5, ItsRow, PatchTypes, MergeTypes, WorkerIsProc DEF Beat
  <2>5. Goto(w, "window") /\ \A v \in Workers : v # w => win'[v] = win[v]
    BY <1>5 DEF Beat, Typed, TypeOK
  <2>6. pc' \in [Workers -> Places] /\ InLoop'
    BY <2>5, GotoTypes, LoopKeeps DEF Places
  <2> QED BY <1>5, <2>3, <2>4, <2>6 DEF Beat, bounds, Typed, TypeOK
<1>6. CASE End(w)
  <2>1. CASE ~StopRequested(w) /\ Whole(w) /\ Checkpoint(w, "window", "report") /\ UNCHANGED verdict
    <3>1. held' \in [Procs -> Update \cup {Nothing}] /\ pc' \in [Workers -> Places] /\ InLoop'
      BY <1>6, <2>1, CheckpointTypes, LoopKeeps DEF End, Checkpoint, Places
    <3> QED BY <1>6, <2>1, <3>1 DEF End, bounds, Typed, TypeOK
  <2>2. CASE /\ Goto(w, "finish") /\ UNCHANGED held
             /\ \E v \in {"PAUSED", "PARTIAL", "FAILED"} : Decide(w, v)
    <3>1. verdict' \in [Workers -> Settled]
      BY <2>2 DEF Decide, Settled, Typed, TypeOK
    <3>2. pc' \in [Workers -> Places] /\ InLoop'
      BY <1>6, <2>2, GotoTypes, LoopKeeps DEF End, Places
    <3> QED BY <1>6, <2>2, <3>1, <3>2 DEF End, bounds, Typed, TypeOK
  <2> QED BY <1>6, <2>1, <2>2, Zenon DEF End
<1>7. CASE Report(w)
  <2>1. held' \in [Procs -> Update \cup {Nothing}] /\ pc' \in [Workers -> Places] /\ InLoop'
    BY <1>7, CheckpointTypes, LoopKeeps DEF Report, Checkpoint, Places, local
  <2> QED BY <1>7, <2>1 DEF Report, local, bounds, Typed, TypeOK
<1>8. CASE Export(w)
  <2>1. verdict' \in [Workers -> Settled]
    BY <1>8 DEF Export, Decide, Settled, Typed, TypeOK
  <2>2. pc' \in [Workers -> Places] /\ InLoop'
    BY <1>8, GotoTypes, LoopKeeps DEF Export, Places
  <2> QED BY <1>8, <2>1, <2>2 DEF Export, bounds, Typed, TypeOK
<1>9. CASE Finish(w)
  <2>1. Goto(w, "idle") /\ Forget(w) /\ Merge(w, job[w], Finished(Its(w), w))
    BY <1>9 DEF Finish
  <2>2. held' \in [Procs -> Update \cup {Nothing}]
    BY <2>1, ItsRow, PatchTypes, MergeTypes, WorkerIsProc
  <2>3. pc' \in [Workers -> Places] /\ InLoop'
    BY <2>1, LoopKeeps, GotoTypes DEF Forget, Places, Typed, TypeOK
  <2> QED BY <1>9, <2>1, <2>2, <2>3, ForgetTypes DEF Finish, Typed, TypeOK, bounds
<1> QED
  BY <1>1, <1>2, <1>3, <1>4, <1>5, <1>6, <1>7, <1>8, <1>9 DEF Execute

LEMMA StepTyped == Typed /\ [Next]_vars => Typed'
<1> SUFFICES ASSUME Typed, [Next]_vars PROVE Typed'
  OBVIOUS
<1>1. ASSUME NEW p \in Procs, Replace(p) PROVE Typed'
  <2>1. held[p] \in Update
    BY <1>1 DEF Replace, Typed, TypeOK
  <2>2. held[p].job \in Jobs /\ held[p].row \in Row
    BY <2>1 DEF Update
  <2>3. file' \in [Jobs -> Row] /\ held' \in [Procs -> Update \cup {Nothing}]
    BY <1>1, <2>2 DEF Replace, Typed, TypeOK
  <2> QED BY <1>1, <2>3 DEF Replace, local, bounds, Typed, TypeOK, InLoop
<1>2. ASSUME NEW w \in Workers, Raise(w) PROVE Typed'
  <2>1. verdict' \in [Workers -> Settled]
    BY <1>2 DEF Raise, Decide, Settled, Typed, TypeOK
  <2>2. pc' \in [Workers -> Places] /\ InLoop' /\ faults' \in Nat
    BY <1>2, GotoTypes, LoopKeeps, FaultTypes DEF Raise, Places
  <2> QED BY <1>2, <2>1, <2>2 DEF Raise, Typed, TypeOK
<1>3. ASSUME NEW w \in Workers, Crash(w) PROVE Typed'
  <2>1. Goto(w, "down") /\ Forget(w) /\ faults' \in Nat
    BY <1>3, FaultTypes DEF Crash
  <2>2. pc' \in [Workers -> Places] /\ InLoop'
    BY <2>1, GotoTypes, LoopKeeps DEF Forget, Places, Typed, TypeOK
  <2>3. held' \in [Procs -> Update \cup {Nothing}]
    BY <1>3 DEF Crash, Typed, TypeOK
  <2> QED BY <1>3, <2>1, <2>2, <2>3, ForgetTypes DEF Crash, Typed, TypeOK
<1>4. ASSUME NEW w \in Workers, Launch(w) \/ Exit(w) PROVE Typed'
  <2>1. UNCHANGED <<file, held, stored, local, bounds>> /\ (Goto(w, "idle") \/ Goto(w, "down"))
    BY <1>4 DEF Launch, Exit
  <2>2. pc' \in [Workers -> Places] /\ InLoop'
    BY <2>1, GotoTypes, LoopKeeps DEF Places, local
  <2> QED BY <2>1, <2>2 DEF local, bounds, Typed, TypeOK
<1>5. ASSUME NEW u \in Users, NEW j \in Jobs, Stop(u, j) \/ Resume(u, j) PROVE Typed'
  <2>1. file[j] \in Row
    BY DEF Typed, TypeOK
  <2>2. Stopped(file[j]) \in Row /\ Restored(file[j]) \in Row
    BY <2>1 DEF Row, Stopped, Restored
  <2>3. held' \in [Procs -> Update \cup {Nothing}]
    BY <1>5, <2>2, MergeTypes, WorkerIsProc DEF Stop, Resume, Click
  <2>4. clicks' \in Nat
    BY <1>5 DEF Stop, Resume, Click, Typed, TypeOK
  <2>5. UNCHANGED <<file, stored, pc, local, faults>>
    BY <1>5 DEF Stop, Resume, Click
  <2> QED BY <2>3, <2>4, <2>5 DEF local, Typed, TypeOK, InLoop
<1>6. ASSUME NEW j \in Jobs, HeartbeatAges(j) PROVE Typed'
  <2>b. file \in [Jobs -> Row] /\ file' = [file EXCEPT ![j].beat = "old"]
    BY <1>6 DEF HeartbeatAges, Typed, TypeOK
  <2>a. [file[j] EXCEPT !.beat = "old"] \in Row
    BY <2>b DEF Row
  <2>1. file' \in [Jobs -> Row]
    BY <2>b, <2>a
  <2>2. faults' \in Nat
    BY <1>6, FaultTypes DEF HeartbeatAges, Typed, TypeOK
  <2>3. UNCHANGED <<held, stored, pc, local, clicks>>
    BY <1>6 DEF HeartbeatAges
  <2> QED BY <2>1, <2>2, <2>3 DEF local, Typed, TypeOK, InLoop
<1>7. CASE UNCHANGED vars
  BY <1>7 DEF vars, local, bounds, Typed, TypeOK, InLoop
<1> QED
  BY <1>1, <1>2, <1>3, <1>4, <1>5, <1>6, <1>7, PollTyped, ExecuteTyped DEF Next

THEOREM AlwaysTyped == Spec => []Typed
<1> QED BY InitTyped, StepTyped, PTL DEF Spec

\* The variables keep their types for every number of workers, users, jobs and windows.
THEOREM TypesHold == Spec => []TypeOK
<1>1. Typed => TypeOK
  BY DEF Typed
<1> QED BY <1>1, AlwaysTyped, PTL

-----------------------------------------------------------------------------
(* Rows, updates on their way and the locals of workers are truthful.      *)

Backed(r) == r.done \subseteq stored /\ (r.status = "COMPLETED" => Windows \subseteq stored)

RowsBacked == \A j \in Jobs : Backed(file[j])
UpdatesBacked == \A p \in Procs : held[p] # Nothing => Backed(held[p].row)
WorkersBacked ==
  \A w \in Workers :
     /\ done[w] \subseteq stored
     /\ pc[w] \in {"report", "export"} => Windows \subseteq done[w]
     /\ verdict[w] = "COMPLETED" => Windows \subseteq stored

Durable == RowsBacked /\ UpdatesBacked /\ WorkersBacked

\* The patch of a truthful row by its worker is truthful.
LEMMA PatchBacked ==
  ASSUME Typed, Durable, NEW r \in Row, Backed(r), NEW w \in Workers
  PROVE  /\ Backed(Requeued(r)) /\ Backed(Claimed(r)) /\ Backed(Checkpointed(r, w))
         /\ Backed(Beaten(r)) /\ Backed(Finished(r, w)) /\ Backed(Stopped(r))
         /\ Backed(Restored(r))
<1>1. done[w] \subseteq stored /\ (verdict[w] = "COMPLETED" => Windows \subseteq stored)
  BY DEF Durable, WorkersBacked
<1> QED
  BY <1>1 DEF Backed, Row, Requeued, Claimed, Checkpointed, Beaten, Finished, Stopped, Restored

LEMMA ItsBacked == ASSUME Typed, Durable, NEW w \in Workers PROVE Its(w) \in Row /\ Backed(Its(w))
  BY ItsRow DEF Durable, RowsBacked, Its

LEMMA MergeBacked ==
  ASSUME Typed, Durable, NEW p \in Procs, NEW j, NEW r, Backed(r), Merge(p, j, r),
         UNCHANGED stored
  PROVE  UpdatesBacked'
  BY DEF Typed, TypeOK, Durable, UpdatesBacked, Backed, Merge

LEMMA RowsStay == ASSUME Durable, UNCHANGED <<file, stored>> PROVE RowsBacked'
  BY DEF Durable, RowsBacked, Backed

LEMMA UpdatesStay == ASSUME Durable, UNCHANGED <<held, stored>> PROVE UpdatesBacked'
  BY DEF Durable, UpdatesBacked, Backed

\* A worker moves on, its progress, its verdict and the disk stay.
LEMMA MoveBacked ==
  ASSUME Typed, Durable, NEW w \in Workers, NEW to, Goto(w, to),
         UNCHANGED <<stored, done, verdict>>,
         to \in {"report", "export"} => Windows \subseteq done[w]
  PROVE  WorkersBacked'
  BY DEF Typed, TypeOK, Durable, WorkersBacked, Goto

LEMMA DecideBacked ==
  ASSUME Typed, Durable, NEW w \in Workers, NEW v, Goto(w, "finish"), Decide(w, v),
         UNCHANGED <<stored, done>>, v = "COMPLETED" => Windows \subseteq stored
  PROVE  WorkersBacked'
  BY DEF Typed, TypeOK, Durable, WorkersBacked, Goto, Decide

LEMMA ForgetBacked ==
  ASSUME Typed, Durable, NEW w \in Workers, NEW to, Goto(w, to), Forget(w),
         to \notin {"report", "export"}, UNCHANGED stored
  PROVE  WorkersBacked'
  BY DEF Typed, TypeOK, Durable, WorkersBacked, Goto, Forget

LEMMA CheckpointBacked ==
  ASSUME Typed, Durable, NEW w \in Workers, NEW from, NEW to, Checkpoint(w, from, to),
         UNCHANGED <<file, stored, done, verdict>>,
         to \in {"report", "export"} => Windows \subseteq done[w]
  PROVE  Durable'
<1>1. Backed(Checkpointed(Its(w), w))
  BY ItsBacked, PatchBacked
<1>2. UpdatesBacked'
  BY <1>1, MergeBacked, WorkerIsProc DEF Checkpoint
<1> QED BY <1>2, RowsStay, MoveBacked DEF Checkpoint, Durable

LEMMA InitDurable == Init => Durable
  BY DEF Init, NewJob, Durable, RowsBacked, UpdatesBacked, WorkersBacked, Backed

LEMMA PollDurable == ASSUME Typed, Durable, NEW w \in Workers, Poll(w) PROVE Durable'
<1>1. CASE Suspect(w) \/ Scan(w)
  <2>1. UNCHANGED <<file, held, stored, done, verdict>> /\ (Goto(w, "recover") \/ Goto(w, "claim"))
    BY <1>1 DEF Suspect, Scan
  <2>2. WorkersBacked'
    BY <2>1, MoveBacked
  <2> QED BY <2>1, <2>2, RowsStay, UpdatesStay DEF Durable
<1>2. CASE Recover(w)
  <2>1. Merge(w, job[w], Requeued(Its(w))) /\ UNCHANGED <<file, stored>>
    BY <1>2 DEF Recover
  <2>2. UpdatesBacked'
    BY <2>1, ItsBacked, PatchBacked, MergeBacked, WorkerIsProc
  <2>3. WorkersBacked'
    BY <1>2, ForgetBacked DEF Recover
  <2> QED BY <2>1, <2>2, <2>3, RowsStay DEF Durable
<1>3. CASE Claim(w)
  <2>1. Merge(w, job[w], Claimed(Its(w))) /\ UNCHANGED <<file, stored, verdict>>
    BY <1>3 DEF Claim
  <2>2. UpdatesBacked'
    BY <2>1, ItsBacked, PatchBacked, MergeBacked, WorkerIsProc
  <2>3. /\ pc' = [pc EXCEPT ![w] = "begin"] /\ done' = [done EXCEPT ![w] = Its(w).done]
        /\ Its(w).done \subseteq stored
    BY <1>3, ItsBacked DEF Claim, Goto, Backed
  <2>4. WorkersBacked'
    BY <2>1, <2>3 DEF Typed, TypeOK, Durable, WorkersBacked
  <2> QED BY <2>1, <2>2, <2>4, RowsStay DEF Durable
<1> QED BY <1>1, <1>2, <1>3 DEF Poll

LEMMA ExecuteDurable == ASSUME Typed, Durable, NEW w \in Workers, Execute(w) PROVE Durable'
<1>1. CASE Begin(w)
  BY <1>1, CheckpointBacked DEF Begin, local
<1>2. CASE Window(w)
  <2>1. UNCHANGED <<file, stored, done, verdict>>
    BY <1>2 DEF Window
  <2>2. CASE ~StopRequested(w)
    <3>1. Goto(w, "work") /\ UNCHANGED held
      BY <1>2, <2>2 DEF Window
    <3> QED BY <2>1, <3>1, MoveBacked, RowsStay, UpdatesStay DEF Durable
  <2>3. CASE StopRequested(w)
    BY <1>2, <2>1, <2>3, CheckpointBacked DEF Window
  <2> QED BY <2>2, <2>3
<1>3. CASE Work(w)
  <2>1. /\ UNCHANGED <<file, held, verdict>> /\ stored \subseteq stored'
        /\ pc' = [pc EXCEPT ![w] = "save"]
    BY <1>3 DEF Work, Goto
  <2>2. \/ done' = done
        \/ done' = [done EXCEPT ![w] = @ \cup {win[w]}] /\ win[w] \in stored'
    BY <1>3 DEF Work
  <2>3. RowsBacked' /\ UpdatesBacked'
    BY <2>1 DEF Durable, RowsBacked, UpdatesBacked, Backed
  <2>4. \A v \in Workers : done'[v] \subseteq stored'
    BY <2>1, <2>2 DEF Durable, WorkersBacked, Typed, TypeOK
  <2>5. \A v \in Workers : pc'[v] \in {"report", "export"} => v # w /\ pc'[v] = pc[v]
    BY <2>1 DEF Typed, TypeOK
  <2>6. \A v \in Workers : v # w => done'[v] = done[v]
    BY <2>2 DEF Typed, TypeOK
  <2>7. WorkersBacked'
    BY <2>1, <2>4, <2>5, <2>6 DEF Durable, WorkersBacked
  <2> QED BY <2>3, <2>7 DEF Durable
<1>4. CASE Save(w)
  BY <1>4, CheckpointBacked DEF Save, local
<1>5. CASE Beat(w)
  <2>1. Merge(w, job[w], Beaten(Its(w))) /\ UNCHANGED <<file, stored, done, verdict>>
    BY <1>5 DEF Beat
  <2>2. UpdatesBacked'
    BY <2>1, ItsBacked, PatchBacked, MergeBacked, WorkerIsProc
  <2>3. WorkersBacked'
    BY <1>5, <2>1, MoveBacked DEF Beat
  <2> QED BY <2>1, <2>2, <2>3, RowsStay DEF Durable
<1>6. CASE End(w)
  <2>1. UNCHANGED <<file, stored, done>>
    BY <1>6 DEF End
  <2>2. CASE Whole(w) /\ Checkpoint(w, "window", "report") /\ UNCHANGED verdict
    BY <2>1, <2>2, CheckpointBacked DEF Whole
  <2>3. CASE /\ Goto(w, "finish") /\ UNCHANGED held
             /\ \E v \in {"PAUSED", "PARTIAL", "FAILED"} : Decide(w, v)
    <3>1. PICK v \in {"PAUSED", "PARTIAL", "FAILED"} : Decide(w, v)
      BY <2>3
    <3> QED BY <2>1, <2>3, <3>1, DecideBacked, RowsStay, UpdatesStay DEF Durable
  <2> QED BY <1>6, <2>2, <2>3, Zenon DEF End
<1>7. CASE Report(w)
  <2>1. Windows \subseteq done[w]
    BY <1>7 DEF Report, Checkpoint, At, Durable, WorkersBacked
  <2> QED BY <1>7, <2>1, CheckpointBacked DEF Report, local
<1>8. CASE Export(w)
  <2>1. Windows \subseteq stored
    BY <1>8 DEF Export, At, Durable, WorkersBacked
  <2>2. UNCHANGED <<file, held, stored, done>> /\ Goto(w, "finish")
    BY <1>8 DEF Export
  <2>3. \E v : Decide(w, v)
    BY <1>8 DEF Export
  <2> QED BY <2>1, <2>2, <2>3, DecideBacked, RowsStay, UpdatesStay DEF Durable
<1>9. CASE Finish(w)
  <2>1. Merge(w, job[w], Finished(Its(w), w)) /\ UNCHANGED <<file, stored>>
    BY <1>9 DEF Finish
  <2>2. UpdatesBacked'
    BY <2>1, ItsBacked, PatchBacked, MergeBacked, WorkerIsProc
  <2>3. WorkersBacked'
    BY <1>9, ForgetBacked DEF Finish
  <2> QED BY <2>1, <2>2, <2>3, RowsStay DEF Durable
<1> QED
  BY <1>1, <1>2, <1>3, <1>4, <1>5, <1>6, <1>7, <1>8, <1>9 DEF Execute

LEMMA StepDurable == Typed /\ Durable /\ [Next]_vars => Durable'
<1> SUFFICES ASSUME Typed, Durable, [Next]_vars PROVE Durable'
  OBVIOUS
<1>1. ASSUME NEW p \in Procs, Replace(p) PROVE Durable'
  <2>1. held[p] # Nothing /\ held[p] \in Update /\ Backed(held[p].row)
    BY <1>1 DEF Replace, Typed, TypeOK, Durable, UpdatesBacked
  <2>2. held[p].job \in Jobs /\ UNCHANGED <<stored, pc, done, verdict>>
    BY <1>1, <2>1 DEF Replace, Update, local
  <2>3. RowsBacked'
    BY <1>1, <2>1, <2>2 DEF Replace, Typed, TypeOK, Durable, RowsBacked, Backed
  <2>4. UpdatesBacked'
    BY <1>1, <2>2 DEF Replace, Typed, TypeOK, Durable, UpdatesBacked, Backed
  <2>5. WorkersBacked'
    BY <2>2 DEF Durable, WorkersBacked
  <2> QED BY <2>3, <2>4, <2>5 DEF Durable
<1>2. ASSUME NEW w \in Workers, Raise(w) PROVE Durable'
  BY <1>2, DecideBacked, RowsStay, UpdatesStay DEF Raise, Durable
<1>3. ASSUME NEW w \in Workers, Crash(w) PROVE Durable'
  <2>1. held' = [held EXCEPT ![w] = Nothing] /\ UNCHANGED <<file, stored>>
    BY <1>3 DEF Crash
  <2>2. UpdatesBacked'
    BY <2>1 DEF Typed, TypeOK, Durable, UpdatesBacked, Backed
  <2>3. WorkersBacked'
    BY <1>3, <2>1, ForgetBacked DEF Crash
  <2> QED BY <2>1, <2>2, <2>3, RowsStay DEF Durable
<1>4. ASSUME NEW w \in Workers, Launch(w) \/ Exit(w) PROVE Durable'
  <2>1. /\ Goto(w, "idle") \/ Goto(w, "down")
        /\ UNCHANGED <<file, held, stored, done, verdict>>
    BY <1>4 DEF Launch, Exit, local
  <2> QED BY <2>1, MoveBacked, RowsStay, UpdatesStay DEF Durable
<1>5. ASSUME NEW u \in Users, NEW j \in Jobs, Stop(u, j) \/ Resume(u, j) PROVE Durable'
  <2>1. file[j] \in Row /\ Backed(file[j])
    BY DEF Typed, TypeOK, Durable, RowsBacked
  <2>2. Backed(Stopped(file[j])) /\ Backed(Restored(file[j]))
    BY <2>1 DEF Row, Backed, Stopped, Restored
  <2>3. UNCHANGED <<file, stored, pc, done, verdict>>
    BY <1>5 DEF Stop, Resume, Click, local
  <2>4. UpdatesBacked'
    BY <1>5, <2>2, <2>3, MergeBacked, WorkerIsProc DEF Stop, Resume, Click
  <2>5. WorkersBacked'
    BY <2>3 DEF Durable, WorkersBacked
  <2> QED BY <2>3, <2>4, <2>5, RowsStay DEF Durable
<1>6. ASSUME NEW j \in Jobs, HeartbeatAges(j) PROVE Durable'
  <2>1. UNCHANGED <<held, stored, pc, done, verdict>>
    BY <1>6 DEF HeartbeatAges, local
  <2>2. \A i \in Jobs : file'[i].done = file[i].done /\ file'[i].status = file[i].status
    BY <1>6 DEF HeartbeatAges, Row, Typed, TypeOK
  <2>3. RowsBacked'
    BY <2>1, <2>2 DEF Durable, RowsBacked, Backed
  <2> QED BY <2>1, <2>3, UpdatesStay DEF Durable, WorkersBacked
<1>7. CASE UNCHANGED vars
  BY <1>7, RowsStay, UpdatesStay DEF vars, local, Durable, WorkersBacked
<1> QED
  BY <1>1, <1>2, <1>3, <1>4, <1>5, <1>6, <1>7, PollDurable, ExecuteDurable DEF Next

THEOREM AlwaysDurable == Spec => []Durable
<1>1. Typed /\ Durable /\ [Next]_vars => Typed' /\ Durable'
  BY StepTyped, StepDurable
<1> QED BY <1>1, InitTyped, InitDurable, PTL DEF Spec

\* However many updates are lost, and however many workers execute one job, no row
\* file ever records a window that is not on disk.
THEOREM CheckpointsHold == Spec => []CheckpointIsDurable
<1>1. Durable => CheckpointIsDurable
  BY DEF Durable, RowsBacked, Backed, CheckpointIsDurable
<1> QED BY <1>1, AlwaysDurable, PTL

-----------------------------------------------------------------------------
(* The refinement                                                          *)

CompletedJobs == {j \in Jobs : file[j].status = "COMPLETED"}

LEMMA InitRefines == Init => DB!Init
  BY DEF Init, NewJob, DB!Init

\* Every step puts a window, completes or reopens a job, or leaves both alone.
LEMMA StepRefines == Typed /\ Durable /\ [Next]_vars => [DB!Next]_<<stored, CompletedJobs>>
<1> SUFFICES ASSUME Typed, Durable, [Next]_vars
             PROVE  DB!Next \/ UNCHANGED <<stored, CompletedJobs>>
  OBVIOUS
<1>1. ASSUME NEW p \in Procs, Replace(p)
      PROVE  DB!Next \/ UNCHANGED <<stored, CompletedJobs>>
  <2> DEFINE j == held[p].job
             r == held[p].row
  <2>1. held[p] # Nothing /\ held[p] \in Update /\ Backed(r)
    BY <1>1 DEF Replace, Typed, TypeOK, Durable, UpdatesBacked
  <2>2. j \in Jobs /\ file' = [file EXCEPT ![j] = r] /\ UNCHANGED stored
    BY <1>1, <2>1 DEF Replace, Update
  <2>3. \A i \in Jobs : file'[i] = IF i = j THEN r ELSE file[i]
    BY <2>2 DEF Typed, TypeOK
  <2>4. CASE r.status = "COMPLETED"
    <3>1. CompletedJobs' = CompletedJobs \cup {j}
      BY <2>2, <2>3, <2>4 DEF CompletedJobs
    <3>2. Windows \subseteq stored
      BY <2>1, <2>4 DEF Backed
    <3> QED BY <2>2, <3>1, <3>2 DEF DB!Next, DB!Complete, CompletedJobs
  <2>5. CASE r.status # "COMPLETED"
    <3>1. CompletedJobs' = CompletedJobs \ {j}
      BY <2>2, <2>3, <2>5 DEF CompletedJobs
    <3> QED BY <2>2, <3>1 DEF DB!Next, DB!Reopen, CompletedJobs
  <2> QED BY <2>4, <2>5
<1>2. ASSUME NEW w \in Workers, Poll(w) PROVE UNCHANGED <<stored, CompletedJobs>>
  BY <1>2 DEF Poll, Suspect, Recover, Scan, Claim, CompletedJobs
<1>3. ASSUME NEW w \in Workers, Execute(w)
      PROVE  DB!Next \/ UNCHANGED <<stored, CompletedJobs>>
  <2>1. CASE Work(w)
    <3>1. win[w] \in Windows
      BY <2>1 DEF Work, At, Typed, InLoop
    <3>2. UNCHANGED CompletedJobs /\ (stored' = stored \cup {win[w]} \/ UNCHANGED stored)
      BY <2>1 DEF Work, CompletedJobs
    <3> QED BY <3>1, <3>2 DEF DB!Next, DB!Put, CompletedJobs
  <2>2. CASE ~Work(w)
    <3>1. UNCHANGED <<file, stored>>
      BY <1>3, <2>2, Zenon DEF Execute, Begin, Window, Save, Beat, End, Report, Export, Finish
    <3> QED BY <3>1 DEF CompletedJobs
  <2> QED BY <2>1, <2>2
<1>4. ASSUME NEW w \in Workers, Exit(w) \/ Raise(w) \/ Crash(w) \/ Launch(w)
      PROVE  UNCHANGED <<stored, CompletedJobs>>
  BY <1>4 DEF Exit, Raise, Crash, Launch, CompletedJobs
<1>5. ASSUME NEW u \in Users, NEW j \in Jobs, Stop(u, j) \/ Resume(u, j)
      PROVE  UNCHANGED <<stored, CompletedJobs>>
  BY <1>5 DEF Stop, Resume, Click, CompletedJobs
<1>6. ASSUME NEW j \in Jobs, HeartbeatAges(j) PROVE UNCHANGED <<stored, CompletedJobs>>
  <2>1. \A i \in Jobs : file'[i].status = file[i].status
    BY <1>6 DEF HeartbeatAges, Row, Typed, TypeOK
  <2> QED BY <1>6, <2>1 DEF HeartbeatAges, CompletedJobs
<1>7. CASE UNCHANGED vars
  BY <1>7 DEF vars, CompletedJobs
<1> QED BY <1>1, <1>2, <1>3, <1>4, <1>5, <1>6, <1>7 DEF Next

\* The LOCAL backend, lost updates and double claims included, implements the same
\* abstract build as the Supabase one.
THEOREM LocalRefines == Spec => ImplementsDurableBuild
<1>1. Typed /\ Durable /\ [Next]_vars => Typed' /\ Durable'
  BY StepTyped, StepDurable
<1>2. Typed /\ Durable /\ [Next]_vars
        => [DB!Next]_<<stored, {j \in Jobs : file[j].status = "COMPLETED"}>>
  BY StepRefines DEF CompletedJobs
<1> QED
  BY <1>1, <1>2, InitTyped, InitDurable, InitRefines, PTL DEF Spec, ImplementsDurableBuild, DB!Spec
=============================================================================
