------------------------- MODULE BuildWorkerProofs -------------------------
(***************************************************************************)
(* TLAPS proofs about the resumable build, for every number of workers,    *)
(* jobs, symbols and windows and whatever faults and clicks occur.         *)
(***************************************************************************)
EXTENDS BuildWorkerProps, TLAPS

-----------------------------------------------------------------------------
(* Types                                                                   *)

LEMMA InitialTypes == NewProgress \in Progress /\ NewManifest \in Manifest /\ NewJob \in Row
  BY DEF NewProgress, NewManifest, NewJob, Progress, Manifest, Row, SymStatus,
         JobStatus, Settled, Windows, Symbols, Keys

LEMMA InitTyped == Init => Typed
  <1> SUFFICES ASSUME Init PROVE Typed
    OBVIOUS
  <1>1. row \in [Jobs -> Row] /\ prog \in [Workers -> Progress] /\ man \in [Workers -> Manifest]
    BY InitialTypes DEF Init
  <1>2. 1 \in Jobs /\ 1 \in 1..(NSymbols + 1) /\ 1 \in 1..(NWindows + 1)
        /\ 0 \in 0..MaxFaults /\ 0 \in 0..MaxClicks
    BY ConstantsOK DEF Jobs
  <1>3. TypeOK
    BY <1>1, <1>2 DEF Init, TypeOK, Phases, Settled
  <1>4. InLoop
    BY DEF Init, InLoop
  <1>5. QED BY <1>3, <1>4 DEF Typed

\* What the actions make of a symbol's record, a manifest and a row.
SymRecord == [status : SymStatus, done : SUBSET Windows,
              failed : SUBSET Windows, invalid : SUBSET Windows]

LEMMA SymbolTypes ==
  ASSUME NEW p \in SymRecord, NEW c \in Windows, NEW d \in SUBSET Windows
  PROVE  /\ Saved(p, c) \in SymRecord /\ Rejected(p, c, d) \in SymRecord
         /\ PausedSymbol(p) \in SymRecord /\ RejectedByExport(p, c) \in SymRecord
  BY DEF Saved, Rejected, PausedSymbol, RejectedByExport, SymRecord, SymStatus

LEMMA ManifestTypes ==
  ASSUME NEW m \in Manifest, NEW keys \in SUBSET Keys, NEW hidden
  PROVE  /\ Synced(m, keys, hidden) \in Manifest /\ FullExport(m, keys) \in Manifest
         /\ PartialExport(m, keys) \in Manifest
  BY DEF Synced, FullExport, PartialExport, Manifest

LEMMA RowTypes ==
  ASSUME NEW r \in Row, NEW w \in Workers, NEW v \in Settled,
         NEW p \in Progress, NEW m \in Manifest
  PROVE  /\ Checkpointed(r, w, p, m) \in Row /\ Claimed(r, w) \in Row
         /\ Finished(r, v, p, m) \in Row /\ Requeued(r) \in Row
         /\ Stopped(r) \in Row /\ Restored(r) \in Row
  BY DEF Checkpointed, Claimed, Finished, Requeued, Stopped, Restored, Row, JobStatus

LEMMA CheckpointType ==
  ASSUME TypeOK, NEW w \in Workers, NEW p \in Progress, NEW m \in Manifest,
         Checkpoint(w, p, m)
  PROVE  row' \in [Jobs -> Row] /\ stale' \subseteq Jobs
  BY RowTypes DEF TypeOK, Checkpoint

LEMMA TakeRowType ==
  ASSUME TypeOK, NEW w \in Workers, NEW j \in Jobs, TakeRow(w, j)
  PROVE  row' \in [Jobs -> Row] /\ stale' \subseteq Jobs
  <1>1. row[j] \in Row
    BY DEF TypeOK
  <1>2. Claimed(row[j], w) \in Row
    BY <1>1 DEF Claimed, Row, JobStatus
  <1>3. QED BY <1>2 DEF TypeOK, TakeRow

LEMMA VerdictType ==
  ASSUME Typed, NEW w \in Workers, WriteVerdict(w)
  PROVE  row' \in [Jobs -> Row] /\ stale' \subseteq Jobs
  <1>1. /\ row \in [Jobs -> Row] /\ stale \subseteq Jobs /\ job[w] \in Jobs
        /\ verdict[w] \in Settled /\ prog[w] \in Progress /\ man[w] \in Manifest
    BY DEF Typed, TypeOK
  <1>2. Finished(row[job[w]], verdict[w], prog[w], man[w]) \in Row
    BY <1>1, RowTypes
  <1>3. QED BY <1>1, <1>2 DEF WriteVerdict

\* Faults are counted up to their bound.
LEMMA FaultType ==
  ASSUME TypeOK, NEW kind, Fault(kind)
  PROVE  faults' \in 0..MaxFaults
  BY ConstantsOK DEF TypeOK, Fault

LEMMA MissedType ==
  ASSUME TypeOK, NEW keys, NEW hidden \in Unseen(keys), Missed(hidden)
  PROVE  faults' \in 0..MaxFaults
  <1>1. CASE hidden = {}
    BY <1>1 DEF TypeOK, Missed
  <1>2. CASE hidden # {}
    BY <1>2, ConstantsOK DEF TypeOK, Missed, Unseen
  <1>3. QED BY <1>1, <1>2

\* An object or a marker that is put is one of a key.
LEMMA PutTypes ==
  ASSUME TypeOK, NEW k \in Keys, UNCHANGED bucket \/ Put(k) \/ PutMarker(k)
  PROVE  /\ stored' \subseteq Keys /\ marked' \subseteq Keys
         /\ corrupt' \subseteq Keys /\ lost' \subseteq Keys
  BY DEF TypeOK, bucket, Put, PutMarker

LEMMA SetSymbolType ==
  ASSUME TypeOK, NEW w \in Workers, NEW s \in Symbols, NEW p \in SymRecord,
         SetSymbol(w, s, p)
  PROVE  prog' \in [Workers -> Progress]
  BY DEF TypeOK, SetSymbol, Progress, SymRecord

LocalTypes ==
  /\ job \in [Workers -> Jobs]
  /\ sym \in [Workers -> 1..(NSymbols + 1)] /\ win \in [Workers -> 1..(NWindows + 1)]
  /\ prog \in [Workers -> Progress] /\ man \in [Workers -> Manifest]
  /\ verdict \in [Workers -> Settled]

\* A worker that leaves a job keeps the types.
LEMMA ForgetType ==
  ASSUME TypeOK, NEW w \in Workers, Forget(w)
  PROVE  LocalTypes'
  <1> USE DEF LocalTypes
  <1>1. 1 \in Jobs /\ 1 \in 1..(NSymbols + 1) /\ 1 \in 1..(NWindows + 1) /\ "FAILED" \in Settled
    BY ConstantsOK DEF Jobs, Settled
  <1>2. QED BY <1>1, InitialTypes DEF TypeOK, Forget

\* A worker's loop positions name a symbol and a window.
LEMMA Positions ==
  ASSUME Typed, NEW w \in Workers
  PROVE  /\ job[w] \in Jobs /\ row[job[w]] \in Row
         /\ prog[w] \in Progress /\ man[w] \in Manifest
         /\ sym[w] \in 1..(NSymbols + 1) /\ win[w] \in 1..(NWindows + 1)
         /\ \A s \in Symbols : prog[w][s] \in SymRecord /\ s + 1 \in 1..(NSymbols + 1)
         /\ \A c \in Windows : c + 1 \in 1..(NWindows + 1)
         /\ sym[w] <= NSymbols => sym[w] \in Symbols
         /\ win[w] <= NWindows => win[w] \in Windows
         /\ pc[w] \in {"chunk", "work", "save"} => sym[w] \in Symbols
         /\ pc[w] \in {"work", "save"} => win[w] \in Windows
  <1>1. sym[w] <= NSymbols => sym[w] \in Symbols
    BY ConstantsOK DEF Typed, TypeOK, Symbols
  <1>2. win[w] <= NWindows => win[w] \in Windows
    BY ConstantsOK DEF Typed, TypeOK, Windows
  <1>3. \A s \in Symbols : prog[w][s] \in SymRecord /\ s + 1 \in 1..(NSymbols + 1)
    <2>1. \A s \in Symbols : prog[w][s] \in SymRecord
      BY DEF Typed, TypeOK, Progress, SymRecord
    <2>2. \A s \in Symbols : s + 1 \in 1..(NSymbols + 1)
      BY ConstantsOK DEF Symbols
    <2>3. QED BY <2>1, <2>2
  <1>4. \A c \in Windows : c + 1 \in 1..(NWindows + 1)
    BY ConstantsOK DEF Windows
  <1>5. QED BY <1>1, <1>2, <1>3, <1>4 DEF Typed, TypeOK, InLoop

LEMMA StepTyped == Typed /\ [Next]_vars => Typed'
  <1> SUFFICES ASSUME Typed, [Next]_vars PROVE Typed'
    OBVIOUS
  <1> USE DEF bucket, local, bounds, Typed
  <1>1. ASSUME NEW w \in Workers, Recover(w) PROVE Typed'
    <2>1. \A j \in Jobs : row[j] \in Row /\ Requeued(row[j]) \in Row
      <3> TAKE j \in Jobs
      <3>1. row[j] \in Row
        BY DEF TypeOK
      <3> QED BY <3>1 DEF Requeued, Row, JobStatus
    <2>2. row' \in [Jobs -> Row]
      BY <1>1, <2>1 DEF Recover, Overdue
    <2>3. QED BY <1>1, <2>2 DEF TypeOK, InLoop, Recover
  <1>2. ASSUME NEW w \in Workers, Claim(w) PROVE Typed'
    <2>1. PICK j \in Claimable :
            /\ TakeRow(w, j)
            /\ job' = [job EXCEPT ![w] = j]
            /\ prog' = [prog EXCEPT ![w] = Resumed(row[j])]
            /\ man' = [man EXCEPT ![w] = row[j].man]
      BY <1>2 DEF Claim
    <2>2. j \in Jobs /\ row[j] \in Row
      BY DEF Claimable, TypeOK
    <2>3. Resumed(row[j]) \in Progress /\ row[j].man \in Manifest
      BY <2>2 DEF Resumed, Row
    <2>4. prog' \in [Workers -> Progress]
          /\ man' \in [Workers -> Manifest] /\ job' \in [Workers -> Jobs]
      BY <2>1, <2>2, <2>3 DEF TypeOK
    <2>5. row' \in [Jobs -> Row] /\ stale' \subseteq Jobs
      BY <2>1, <2>2, TakeRowType
    <2>6. QED BY <1>2, <2>4, <2>5 DEF TypeOK, InLoop, Claim, Goto, Phases
  <1>3. ASSUME NEW w \in Workers, Begin(w) PROVE Typed'
    <2>1. row' \in [Jobs -> Row] /\ stale' \subseteq Jobs
      BY <1>3, Positions, CheckpointType DEF Begin
    <2>2. QED BY <1>3, <2>1, ConstantsOK DEF TypeOK, InLoop, Begin, Goto, Phases
  <1>4. ASSUME NEW w \in Workers, StartSymbol(w) PROVE Typed'
    <2>1. sym[w] \in Symbols /\ sym[w] + 1 \in 1..(NSymbols + 1) /\ 1 \in 1..(NWindows + 1)
      BY <1>4, Positions, ConstantsOK DEF StartSymbol
    <2>a. faults' \in 0..MaxFaults
      <3>1. \/ UNCHANGED faults
            \/ \E hidden \in Unseen({sym[w]} \X Windows) : Missed(hidden)
        BY <1>4 DEF StartSymbol
      <3>2. QED BY <3>1, MissedType DEF TypeOK
    <2>2. TypeOK'
      BY <1>4, <2>1, <2>a DEF TypeOK, StartSymbol, Goto, Decide, Phases, Settled
    <2>3. InLoop'
      BY <1>4, <2>1 DEF InLoop, TypeOK, StartSymbol, Goto
    <2>4. QED BY <2>2, <2>3
  <1>5. ASSUME NEW w \in Workers, NextWindow(w) PROVE Typed'
    <2>1. sym[w] \in Symbols /\ win[w] \in Windows /\ sym[w] + 1 \in 1..(NSymbols + 1)
          /\ prog[w][sym[w]] \in SymRecord /\ man[w] \in Manifest
      BY <1>5, Positions DEF NextWindow
    <2>2. CASE ~StopRequested(w)
      BY <1>5, <2>1, <2>2 DEF TypeOK, InLoop, NextWindow, Goto, Phases
    <2>3. CASE StopRequested(w)
      <3>1. prog' \in [Workers -> Progress]
        <4>1. PausedSymbol(prog[w][sym[w]]) \in SymRecord
          BY <2>1 DEF PausedSymbol, SymRecord, SymStatus
        <4>2. SetSymbol(w, sym[w], PausedSymbol(prog[w][sym[w]])) /\ sym[w] \in Symbols
          BY <1>5, <2>1, <2>3 DEF NextWindow
        <4>3. QED BY <4>1, <4>2, SetSymbolType
      <3>2. row' \in [Jobs -> Row] /\ stale' \subseteq Jobs
        BY <1>5, <2>1, <2>3, <3>1, CheckpointType DEF NextWindow
      <3>3. TypeOK'
        BY <1>5, <2>1, <2>3, <3>1, <3>2, ZenonT(40) DEF TypeOK, NextWindow, Goto, Phases
      <3>4. InLoop'
        BY <1>5, <2>1, <2>3 DEF TypeOK, InLoop, NextWindow, Goto
      <3>5. QED BY <3>3, <3>4
    <2>4. QED BY <2>2, <2>3
  <1>6. ASSUME NEW w \in Workers, Work(w) PROVE Typed'
    <2> DEFINE s == sym[w]
               c == win[w]
               p == prog[w][s]
    <2>1. s \in Symbols /\ c \in Windows /\ p \in SymRecord /\ <<s, c>> \in Keys
      BY <1>6, Positions DEF Work, Keys
    <2>2. /\ Saved(p, c) \in SymRecord /\ Rejected(p, c, p.done) \in SymRecord
          /\ Rejected(p, c, p.done \cup {c}) \in SymRecord
      <3>1. p.done \in SUBSET Windows /\ p.done \cup {c} \in SUBSET Windows
        BY <2>1 DEF SymRecord
      <3>2. QED BY <2>1, <3>1, SymbolTypes
    <2>3. prog' \in [Workers -> Progress]
      <3>1. \/ SetSymbol(w, s, Saved(p, c)) \/ SetSymbol(w, s, Rejected(p, c, p.done))
            \/ SetSymbol(w, s, Rejected(p, c, p.done \cup {c}))
        BY <1>6 DEF Work
      <3>2. QED BY <2>1, <2>2, <3>1, SetSymbolType
    <2>4. /\ stored' \subseteq Keys /\ marked' \subseteq Keys
          /\ corrupt' \subseteq Keys /\ lost' \subseteq Keys
      <3>1. UNCHANGED bucket \/ Put(<<s, c>>) \/ PutMarker(<<s, c>>)
        BY <1>6 DEF Work
      <3>2. QED BY <2>1, <3>1, PutTypes
    <2>5. faults' \in 0..MaxFaults
      <3>1. UNCHANGED faults \/ Fault("head") \/ Fault("fetch")
        BY <1>6 DEF Work
      <3>2. QED BY <3>1, FaultType DEF TypeOK
    <2>6. pc' \in [Workers -> Phases] /\ InLoop'
      BY <1>6, <2>1 DEF Work, TypeOK, InLoop, Goto, Phases
    <2>7. QED BY <1>6, <2>3, <2>4, <2>5, <2>6 DEF Work, TypeOK
  <1>7. ASSUME NEW w \in Workers, Save(w) PROVE Typed'
    <2>1. sym[w] \in Symbols /\ win[w] + 1 \in 1..(NWindows + 1)
      BY <1>7, Positions DEF Save
    <2>2. row' \in [Jobs -> Row] /\ stale' \subseteq Jobs
      <3>1. prog[w] \in Progress /\ row[job[w]].man \in Manifest
        BY Positions DEF Row
      <3>2. QED BY <1>7, <3>1, CheckpointType DEF Save
    <2>3. QED BY <1>7, <2>1, <2>2 DEF Save, TypeOK, InLoop, Goto, Phases
  <1>8. ASSUME NEW w \in Workers, EndSymbol(w) PROVE Typed'
    <2>1. sym[w] + 1 \in 1..(NSymbols + 1)
      BY <1>8, Positions DEF EndSymbol
    <2>2. row' \in [Jobs -> Row] /\ stale' \subseteq Jobs
      BY <1>8, Positions, CheckpointType DEF EndSymbol, TypeOK
    <2>3. QED BY <1>8, <2>1, <2>2 DEF EndSymbol, TypeOK, InLoop, Goto, Phases
  <1>9. ASSUME NEW w \in Workers, Sync(w) PROVE Typed'
    <2>1. man' \in [Workers -> Manifest]
      <3>1. SyncedChunks(prog[w]) \in SUBSET Keys
        BY DEF SyncedChunks, TypeOK
      <3>2. \A hidden : Synced(man[w], SyncedChunks(prog[w]), hidden) \in Manifest
        BY <3>1, Positions, ManifestTypes
      <3>3. QED BY <1>9, <3>2 DEF Sync, TypeOK
    <2>a. faults' \in 0..MaxFaults
      <3>1. \E hidden \in Unseen(SyncedChunks(prog[w])) : Missed(hidden)
        BY <1>9 DEF Sync
      <3>2. QED BY <3>1, MissedType
    <2>2. row' \in [Jobs -> Row] /\ stale' \subseteq Jobs
      BY <1>9, <2>1, Positions, CheckpointType DEF Sync, TypeOK
    <2>3. ShortVerdict(prog[w]) \in Settled
      BY DEF ShortVerdict, Settled
    <2>4. verdict' \in [Workers -> Settled] /\ pc' \in [Workers -> Phases] /\ InLoop'
      BY <1>9, <2>3 DEF Sync, TypeOK, InLoop, Goto, Decide, Phases, Settled
    <2>5. QED BY <1>9, <2>1, <2>a, <2>2, <2>4 DEF Sync, TypeOK
  <1>10. ASSUME NEW w \in Workers, ExportFull(w) PROVE Typed'
    <2> DEFINE chunks == man[w].chunks
    <2>1. chunks \in SUBSET Keys /\ FullExport(man[w], chunks) \in Manifest
      BY Positions, ManifestTypes DEF Manifest
    <2>2. man' \in [Workers -> Manifest]
      BY <1>10, <2>1 DEF ExportFull, TypeOK
    <2>3. prog' \in [Workers -> Progress]
      <3>1. CASE UNCHANGED prog
        BY <3>1 DEF TypeOK
      <3>2. CASE \E k \in corrupt \cap chunks :
                   SetSymbol(w, k[1], RejectedByExport(prog[w][k[1]], k[2]))
        <4>1. PICK k \in corrupt \cap chunks :
                SetSymbol(w, k[1], RejectedByExport(prog[w][k[1]], k[2]))
          BY <3>2
        <4>2. k[1] \in Symbols /\ k[2] \in Windows
          BY <2>1 DEF Keys
        <4>3. RejectedByExport(prog[w][k[1]], k[2]) \in SymRecord
          BY <4>2, Positions, SymbolTypes
        <4>4. QED BY <4>1, <4>2, <4>3, SetSymbolType
      <3>3. QED BY <1>10, <3>1, <3>2 DEF ExportFull
    <2>4. verdict' \in [Workers -> Settled]
      BY <1>10 DEF ExportFull, TypeOK, Decide, Settled
    <2>5. pc' \in [Workers -> Phases] /\ InLoop'
      BY <1>10 DEF ExportFull, TypeOK, InLoop, Goto, Phases
    <2>6. faults' \in 0..MaxFaults
      <3>1. UNCHANGED faults \/ Fault("head")
        BY <1>10 DEF ExportFull
      <3>2. QED BY <3>1, FaultType DEF TypeOK
    <2>7. QED BY <1>10, <2>2, <2>3, <2>4, <2>5, <2>6 DEF ExportFull, TypeOK
  <1>11. ASSUME NEW w \in Workers, ExportPartial(w) PROVE Typed'
    <2> DEFINE m(hidden) == Synced(man[w], SyncedChunks(prog[w]), hidden)
    <2>1. PICK hidden \in Unseen(SyncedChunks(prog[w])) :
            /\ Missed(hidden)
            /\ \/ man' = [man EXCEPT ![w] = m(hidden)]
               \/ man' = [man EXCEPT ![w] = PartialExport(m(hidden), m(hidden).chunks)]
      BY <1>11 DEF ExportPartial
    <2>2. m(hidden) \in Manifest /\ PartialExport(m(hidden), m(hidden).chunks) \in Manifest
      <3>1. SyncedChunks(prog[w]) \in SUBSET Keys
        BY DEF SyncedChunks, TypeOK
      <3>2. m(hidden) \in Manifest
        BY <3>1, Positions, ManifestTypes
      <3>3. m(hidden).chunks \in SUBSET Keys
        BY <3>2 DEF Manifest
      <3>4. QED BY <3>2, <3>3, ManifestTypes
    <2> HIDE DEF m
    <2>3. man' \in [Workers -> Manifest] /\ faults' \in 0..MaxFaults
      BY <2>1, <2>2, MissedType DEF TypeOK
    <2>4. QED BY <1>11, <2>3 DEF ExportPartial, TypeOK, InLoop, Goto, Phases
  <1>12. ASSUME NEW w \in Workers, Finish(w) PROVE Typed'
    <2>1. row' \in [Jobs -> Row] /\ stale' \subseteq Jobs
      BY <1>12, VerdictType DEF Finish
    <2>2. LocalTypes'
      BY <1>12, ForgetType DEF Finish
    <2>3. InLoop'
      BY <1>12 DEF Finish, Forget, Goto, InLoop, TypeOK
    <2>4. QED BY <1>12, <2>1, <2>2, <2>3 DEF Finish, TypeOK, Goto, Phases, LocalTypes
  <1>13. ASSUME NEW w \in Workers, ReportExport(w) PROVE Typed'
    <2>1. row' \in [Jobs -> Row] /\ stale' \subseteq Jobs
      BY <1>13, Positions, CheckpointType DEF ReportExport, TypeOK
    <2>2. QED BY <1>13, <2>1 DEF ReportExport, TypeOK, InLoop
  <1>14. ASSUME NEW w \in Workers, Crash(w) PROVE Typed'
    <2>1. faults' \in 0..MaxFaults
      BY <1>14, ConstantsOK DEF Crash, Fault, TypeOK
    <2>2. LocalTypes'
      BY <1>14, ForgetType DEF Crash
    <2>3. InLoop'
      BY <1>14 DEF Crash, Forget, Goto, InLoop, TypeOK
    <2>4. QED BY <1>14, <2>1, <2>2, <2>3 DEF Crash, TypeOK, Goto, Phases, LocalTypes
  <1>15. ASSUME NEW w \in Workers, Restart(w) PROVE Typed'
    BY <1>15 DEF Restart, TypeOK, InLoop, Goto, Phases
  <1>16. ASSUME NEW w \in Workers, StoreError(w) PROVE Typed'
    <2>1. faults' \in 0..MaxFaults
      BY <1>16, FaultType DEF StoreError
    <2>2. row' \in [Jobs -> Row] /\ stale' \subseteq Jobs
      BY <1>16, VerdictType DEF StoreError, TypeOK
    <2>3. /\ stored' \subseteq Keys /\ marked' \subseteq Keys
          /\ corrupt' \subseteq Keys /\ lost' \subseteq Keys
      <3>1. \/ UNCHANGED bucket
            \/ pc[w] = "work" /\ PutMarker(<<sym[w], win[w]>>)
        BY <1>16 DEF StoreError
      <3>2. pc[w] = "work" => <<sym[w], win[w]>> \in Keys
        BY Positions DEF Keys
      <3>3. QED BY <3>1, <3>2, PutTypes DEF TypeOK
    <2>4. verdict' \in [Workers -> Settled] /\ pc' \in [Workers -> Phases] /\ InLoop'
      BY <1>16 DEF StoreError, TypeOK, InLoop, Goto, Decide, Phases, Settled
    <2>5. QED BY <1>16, <2>1, <2>2, <2>3, <2>4 DEF StoreError, TypeOK
  <1>a. ASSUME NEW w \in Workers, GiveUp(w) PROVE Typed'
    <2>1. faults' \in 0..MaxFaults
      BY <1>a, FaultType DEF GiveUp
    <2>2. row' \in [Jobs -> Row] /\ stale' \subseteq Jobs
      <3>1. Finished(row[job[w]], "FAILED", row[job[w]].prog, row[job[w]].man) \in Row
        BY Positions, RowTypes DEF Settled, Row
      <3>2. QED BY <1>a, <3>1 DEF GiveUp, TypeOK
    <2>3. LocalTypes'
      BY <1>a, ForgetType DEF GiveUp
    <2>4. InLoop'
      BY <1>a DEF GiveUp, Forget, Goto, InLoop, TypeOK
    <2>5. QED BY <1>a, <2>1, <2>2, <2>3, <2>4 DEF GiveUp, TypeOK, Goto, Phases, LocalTypes
  <1>b. ASSUME NEW w \in Workers, ClaimUnheard(w) PROVE Typed'
    <2>1. row' \in [Jobs -> Row] /\ stale' \subseteq Jobs
      BY <1>b, TakeRowType DEF ClaimUnheard, Claimable
    <2>2. faults' \in 0..MaxFaults
      BY <1>b, FaultType DEF ClaimUnheard
    <2>3. QED BY <1>b, <2>1, <2>2 DEF ClaimUnheard, TypeOK, InLoop
  <1>17. ASSUME NEW j \in Jobs, Stop(j) \/ Resume(j) PROVE Typed'
    <2>1. clicks' \in 0..MaxClicks
      BY <1>17, ConstantsOK DEF Stop, Resume, TypeOK
    <2>2. Stopped(row[j]) \in Row /\ Restored(row[j]) \in Row
      BY DEF Stopped, Restored, TypeOK, Row, JobStatus
    <2>3. row' \in [Jobs -> Row]
      BY <1>17, <2>2 DEF Stop, Resume, TypeOK
    <2>4. QED BY <1>17, <2>1, <2>3 DEF Stop, Resume, TypeOK, InLoop
  <1>18. ASSUME NEW j \in Jobs, HeartbeatAges(j) PROVE Typed'
    <2>1. faults' \in 0..MaxFaults
      BY <1>18, ConstantsOK DEF HeartbeatAges, Fault, TypeOK
    <2>2. QED BY <1>18, <2>1 DEF HeartbeatAges, TypeOK, InLoop
  <1>19. ASSUME NEW k \in Keys, Corrupt(k) \/ Lose(k) PROVE Typed'
    <2>1. faults' \in 0..MaxFaults
      BY <1>19, ConstantsOK DEF Corrupt, Lose, Fault, TypeOK
    <2>2. QED BY <1>19, <2>1 DEF Corrupt, Lose, TypeOK, InLoop
  <1>20. CASE UNCHANGED vars
    BY <1>20 DEF TypeOK, InLoop, vars
  <1>21. QED
    BY <1>1, <1>2, <1>3, <1>4, <1>5, <1>6, <1>7, <1>8, <1>9, <1>10, <1>11, <1>12,
       <1>13, <1>14, <1>15, <1>16, <1>a, <1>b, <1>17, <1>18, <1>19, <1>20
    DEF Next, Execute

-----------------------------------------------------------------------------
(* Durability: CheckpointIsDurable and CompletedIsDurable                  *)

\* The variables of the build are always of their types.
THEOREM TypesHold == Spec => []TypeOK
  <1>1. Spec => []Typed
    BY InitTyped, StepTyped, PTL DEF Spec
  <1>2. Typed => TypeOK
    BY DEF Typed
  <1>3. QED BY <1>1, <1>2, PTL

\* What was given stays given.
LEMMA GivenGrows == Typed /\ [Next]_vars => Given \subseteq Given'
  <1> SUFFICES ASSUME Typed, [Next]_vars PROVE Given \subseteq Given'
    OBVIOUS
  <1>1. CASE UNCHANGED bucket
    BY <1>1 DEF bucket, Given, Present
  <1>2. ASSUME NEW w \in Workers, Work(w) \/ StoreError(w) PROVE Given \subseteq Given'
    <2>1. UNCHANGED bucket \/ \E k : Put(k) \/ PutMarker(k)
      BY <1>2 DEF Work, StoreError, bucket
    <2>2. QED BY <1>1, <2>1 DEF Put, PutMarker, Given, Present
  <1>3. ASSUME NEW k \in Keys, Corrupt(k) \/ Lose(k) PROVE Given \subseteq Given'
    BY <1>3 DEF Corrupt, Lose, Given, Present
  <1>4. ASSUME NEW w \in Workers,
               Recover(w) \/ Claim(w) \/ ReportExport(w) \/ Crash(w) \/ Restart(w)
                 \/ GiveUp(w) \/ ClaimUnheard(w) \/ Begin(w) \/ StartSymbol(w) \/ NextWindow(w)
        PROVE  UNCHANGED bucket
    BY <1>4 DEF Recover, Claim, ReportExport, Crash, Restart, GiveUp, ClaimUnheard,
                Begin, StartSymbol, NextWindow
  <1>5. ASSUME NEW w \in Workers,
               Save(w) \/ EndSymbol(w) \/ Sync(w) \/ ExportFull(w) \/ ExportPartial(w) \/ Finish(w)
        PROVE  UNCHANGED bucket
    BY <1>5 DEF Save, EndSymbol, Sync, ExportFull, ExportPartial, Finish
  <1>6. ASSUME NEW j \in Jobs, Stop(j) \/ Resume(j) \/ HeartbeatAges(j)
        PROVE  UNCHANGED bucket
    BY <1>6 DEF Stop, Resume, HeartbeatAges, bucket
  <1>7. CASE UNCHANGED vars
    BY <1>7, <1>1 DEF vars
  <1>8. QED
    BY <1>1, <1>2, <1>3, <1>4, <1>5, <1>6, <1>7 DEF Next, Execute

\* Backed progress stays backed as keys are added, and when one symbol's record
\* is replaced by a backed one; and with every symbol complete it is everything.
LEMMA BackedGrows ==
  ASSUME NEW p, NEW keys, NEW more, Backed(p, keys), keys \subseteq more
  PROVE  Backed(p, more)
  BY DEF Backed

LEMMA BackedSet ==
  ASSUME NEW p \in Progress, NEW keys, Backed(p, keys), NEW s \in Symbols, NEW q \in SymRecord,
         {s} \X q.done \subseteq keys, q.status = "COMPLETE" => q.done = Windows
  PROVE  Backed([p EXCEPT ![s] = q], keys)
  BY DEF Backed, Progress

LEMMA BackedComplete ==
  ASSUME NEW p \in Progress, NEW keys, Backed(p, keys), Downloaded(p) = Symbols
  PROVE  Keys \subseteq keys
  <1> SUFFICES ASSUME NEW s \in Symbols, NEW c \in Windows PROVE <<s, c>> \in keys
    BY DEF Keys
  <1>1. p[s].done = Windows
    BY DEF Backed, Downloaded
  <1>2. QED BY <1>1 DEF Backed

LEMMA InitDurable == Init => Durable
  <1> SUFFICES ASSUME Init PROVE Durable
    OBVIOUS
  <1>1. \A keys : Backed(NewProgress, keys)
    BY DEF Backed, NewProgress
  <1>2. QED
    BY <1>1 DEF Init, Durable, CompletedIsDurable, NewJob

\* The parts of Durable, after a step that adds no key.
LEMMA RowsStay ==
  ASSUME Typed, Durable, Given \subseteq Given',
         \A j \in Jobs : /\ row'[j].prog = row[j].prog \/ Backed(row'[j].prog, Given')
                         /\ row'[j].status = "COMPLETED" =>
                             row[j].status = "COMPLETED" \/ Keys \subseteq Given'
  PROVE  (\A j \in Jobs : Backed(row[j].prog, Given))' /\ CompletedIsDurable'
  <1>1. \A j \in Jobs : Backed(row[j].prog, Given')
    BY BackedGrows DEF Durable
  <1>2. \A j \in Jobs : Backed(row'[j].prog, Given')
    BY <1>1
  <1>3. CompletedIsDurable'
    BY DEF Durable, CompletedIsDurable
  <1>4. QED BY <1>2, <1>3

LEMMA WorkersStay ==
  ASSUME Typed, Durable, Given \subseteq Given',
         \A w \in Workers : /\ prog'[w] = prog[w] \/ Backed(prog'[w], Given')
                            /\ verdict'[w] = "COMPLETED" =>
                                verdict[w] = "COMPLETED" \/ Keys \subseteq Given'
  PROVE  (\A w \in Workers : Backed(prog[w], Given))'
         /\ (\A w \in Workers : verdict[w] = "COMPLETED" => Keys \subseteq Given)'
  <1>1. \A w \in Workers : Backed(prog[w], Given')
    BY BackedGrows DEF Durable
  <1>2. \A w \in Workers : Backed(prog'[w], Given')
    BY <1>1
  <1>3. (\A w \in Workers : verdict[w] = "COMPLETED" => Keys \subseteq Given)'
    BY DEF Durable
  <1>4. QED BY <1>2, <1>3

LEMMA CheckpointDurable ==
  ASSUME Typed, Durable, Given \subseteq Given', NEW w \in Workers, NEW p, NEW m,
         Checkpoint(w, p, m), Backed(p, Given')
  PROVE  (\A j \in Jobs : Backed(row[j].prog, Given))' /\ CompletedIsDurable'
  <1>1. job[w] \in Jobs /\ row \in [Jobs -> Row]
    BY DEF Typed, TypeOK
  <1>2. Checkpointed(row[job[w]], w, p, m).prog = p
        /\ Checkpointed(row[job[w]], w, p, m).status = row[job[w]].status
    BY <1>1 DEF Checkpointed, Row
  <1>3. QED BY <1>1, <1>2, RowsStay DEF Checkpoint

LEMMA ForgetDurable ==
  ASSUME Typed, Durable, Given \subseteq Given', NEW w \in Workers, Forget(w)
  PROVE  (\A v \in Workers : Backed(prog[v], Given))'
         /\ (\A v \in Workers : verdict[v] = "COMPLETED" => Keys \subseteq Given)'
  <1>1. \A keys : Backed(NewProgress, keys)
    BY DEF Backed, NewProgress
  <1>2. QED BY <1>1, WorkersStay DEF Forget, Typed, TypeOK

LEMMA SetSymbolDurable ==
  ASSUME Typed, Durable, Given \subseteq Given', NEW w \in Workers,
         NEW s \in Symbols, NEW q \in SymRecord, SetSymbol(w, s, q),
         {s} \X q.done \subseteq Given', q.status = "COMPLETE" => q.done = Windows
  PROVE  \A v \in Workers : Backed(prog'[v], Given')
  <1>1. \A v \in Workers : prog[v] \in Progress /\ Backed(prog[v], Given')
    BY BackedGrows DEF Typed, TypeOK, Durable
  <1>2. Backed([prog[w] EXCEPT ![s] = q], Given')
    BY <1>1, BackedSet
  <1>3. QED BY <1>1, <1>2 DEF SetSymbol, Typed, TypeOK

LEMMA StepDurable == Typed /\ Typed' /\ Durable /\ [Next]_vars => Durable'
  <1> SUFFICES ASSUME Typed, Typed', Durable, [Next]_vars PROVE Durable'
    OBVIOUS
  <1> DEFINE Rows == (\A j \in Jobs : Backed(row[j].prog, Given))' /\ CompletedIsDurable'
             Mine == /\ (\A w \in Workers : Backed(prog[w], Given))'
                     /\ (\A w \in Workers : verdict[w] = "COMPLETED" => Keys \subseteq Given)'
  <1>a. Given \subseteq Given'
    BY GivenGrows
  <1>b. row \in [Jobs -> Row] /\ prog \in [Workers -> Progress] /\ verdict \in [Workers -> Settled]
    BY DEF Typed, TypeOK
  <1>c. UNCHANGED row => Rows
    BY <1>a, RowsStay
  <1>d. UNCHANGED <<prog, verdict>> => Mine
    BY <1>a, WorkersStay
  <1>e. Rows /\ Mine => Durable'
    BY DEF Durable
  <1>f. \A w \in Workers : Backed(prog[w], Given')
    BY <1>a, BackedGrows DEF Durable
  <1> HIDE DEF Rows, Mine
  <1>1. ASSUME NEW w \in Workers, Recover(w) PROVE Durable'
    <2>1. \A j \in Jobs : Requeued(row[j]).prog = row[j].prog /\ Requeued(row[j]).status = "QUEUED"
      BY <1>b DEF Requeued, Row
    <2>2. Rows
      <3>1. \A j \in Jobs : row'[j].prog = row[j].prog
                            /\ (row'[j].status = "COMPLETED" => row[j].status = "COMPLETED")
        BY <1>1, <2>1 DEF Recover, Overdue
      <3>2. QED BY <1>a, <3>1, RowsStay DEF Rows
    <2>3. QED BY <1>1, <1>d, <1>e, <2>2 DEF Recover, local
  <1>g. ASSUME NEW w \in Workers, NEW j \in Claimable, TakeRow(w, j) PROVE Rows
    <2>1. j \in Jobs /\ Claimed(row[j], w).prog = row[j].prog /\ Claimed(row[j], w).status = "RUNNING"
      BY <1>b DEF Claimable, Claimed, Row
    <2>2. QED BY <1>a, <1>b, <1>g, <2>1, RowsStay DEF TakeRow, Rows
  <1>2. ASSUME NEW w \in Workers, Claim(w) PROVE Durable'
    <2>1. PICK j \in Claimable : /\ TakeRow(w, j)
                                 /\ prog' = [prog EXCEPT ![w] = Resumed(row[j])]
      BY <1>2 DEF Claim
    <2>3. Rows
      BY <1>g, <2>1
    <2>4. Backed(Resumed(row[j]), Given')
      BY <1>a, BackedGrows DEF Resumed, Durable, Claimable
    <2>5. Mine
      BY <1>2, <1>a, <1>b, <2>1, <2>4, WorkersStay DEF Mine, Claim
    <2>6. QED BY <1>e, <2>3, <2>5
  <1>3. ASSUME NEW w \in Workers, Begin(w) \/ EndSymbol(w) \/ ReportExport(w) PROVE Durable'
    <2>1. UNCHANGED <<prog, verdict>> /\ (UNCHANGED row \/ Checkpoint(w, prog[w], man[w]))
      BY <1>3 DEF Begin, EndSymbol, ReportExport, local
    <2>2. Rows
      BY <1>a, <1>c, <1>f, <2>1, CheckpointDurable DEF Rows
    <2>3. QED BY <1>d, <1>e, <2>1, <2>2
  <1>4. ASSUME NEW w \in Workers, StartSymbol(w) PROVE Durable'
    <2>1. UNCHANGED <<row, prog>> /\ (UNCHANGED verdict \/ Decide(w, "PAUSED"))
      BY <1>4 DEF StartSymbol
    <2>2. Mine
      BY <1>a, <1>b, <2>1, WorkersStay DEF Mine, Decide
    <2>3. QED BY <1>c, <1>e, <2>1, <2>2
  <1>5. ASSUME NEW w \in Workers, NextWindow(w) PROVE Durable'
    <2>1. CASE ~StopRequested(w)
      BY <1>5, <2>1, <1>c, <1>d, <1>e DEF NextWindow
    <2>2. CASE StopRequested(w)
      <3>1. /\ SetSymbol(w, sym[w], PausedSymbol(prog[w][sym[w]]))
            /\ Checkpoint(w, prog'[w], man[w]) /\ UNCHANGED verdict
        BY <1>5, <2>2 DEF NextWindow
      <3>2. sym[w] \in Symbols /\ prog[w][sym[w]] \in SymRecord
        BY <1>5, Positions DEF NextWindow
      <3>3. LET q == PausedSymbol(prog[w][sym[w]])
            IN  q \in SymRecord /\ q.done = prog[w][sym[w]].done /\ q.status = "PAUSED"
        BY <3>2 DEF PausedSymbol, SymRecord, SymStatus
      <3>4. {sym[w]} \X prog[w][sym[w]].done \subseteq Given'
        BY <1>f, <3>2 DEF Backed
      <3>5. \A v \in Workers : Backed(prog'[v], Given')
        BY <1>a, <3>1, <3>2, <3>3, <3>4, SetSymbolDurable
      <3>6. Rows
        BY <1>a, <3>1, <3>5, CheckpointDurable DEF Rows
      <3>7. Mine
        BY <1>a, <3>1, <3>5, WorkersStay DEF Mine
      <3>8. QED BY <1>e, <3>6, <3>7
    <2>3. QED BY <2>1, <2>2
  <1>6. ASSUME NEW w \in Workers, Work(w) PROVE Durable'
    <2> DEFINE s == sym[w]
               c == win[w]
               p == prog[w][s]
    <2>1. s \in Symbols /\ c \in Windows /\ p \in SymRecord
      BY <1>6, Positions DEF Work
    <2>2. {s} \X p.done \subseteq Given'
      BY <1>f, <2>1 DEF Backed
    <2>3. /\ UNCHANGED <<row, verdict>>
          /\ \/ SetSymbol(w, s, Saved(p, c)) /\ <<s, c>> \in Given'
             \/ SetSymbol(w, s, Rejected(p, c, p.done))
             \/ SetSymbol(w, s, Rejected(p, c, p.done \cup {c})) /\ <<s, c>> \in Given'
      BY <1>6 DEF Work, Given, Present, bucket, Put, PutMarker
    <2>4. \A v \in Workers : Backed(prog'[v], Given')
      <3>1. CASE SetSymbol(w, s, Saved(p, c)) /\ <<s, c>> \in Given'
        <4>1. Saved(p, c) \in SymRecord
          BY <2>1 DEF Saved, SymRecord, SymStatus
        <4>2. /\ Saved(p, c).done = p.done \cup {c}
              /\ Saved(p, c).status = "COMPLETE" => Saved(p, c).done = Windows
          BY DEF Saved
        <4>3. {s} \X Saved(p, c).done \subseteq Given'
          BY <2>2, <3>1, <4>2
        <4>4. QED BY <1>a, <2>1, <3>1, <4>1, <4>2, <4>3, SetSymbolDurable
      <3>2. CASE SetSymbol(w, s, Rejected(p, c, p.done))
        <4>1. /\ Rejected(p, c, p.done) \in SymRecord /\ Rejected(p, c, p.done).done = p.done
              /\ Rejected(p, c, p.done).status = "FAILED"
          BY <2>1 DEF Rejected, SymRecord, SymStatus
        <4>2. QED BY <1>a, <2>1, <2>2, <3>2, <4>1, SetSymbolDurable
      <3>3. CASE SetSymbol(w, s, Rejected(p, c, p.done \cup {c})) /\ <<s, c>> \in Given'
        <4>1. LET q == Rejected(p, c, p.done \cup {c})
              IN  q \in SymRecord /\ q.done = p.done \cup {c} /\ q.status = "FAILED"
          BY <2>1 DEF Rejected, SymRecord, SymStatus
        <4>2. {s} \X (p.done \cup {c}) \subseteq Given'
          BY <2>2, <3>3
        <4>3. QED BY <1>a, <2>1, <3>3, <4>1, <4>2, SetSymbolDurable
      <3>4. QED BY <2>3, <3>1, <3>2, <3>3
    <2>5. Mine
      BY <1>a, <2>3, <2>4, WorkersStay DEF Mine
    <2>6. QED BY <1>c, <1>e, <2>3, <2>5
  <1>7. ASSUME NEW w \in Workers, Save(w) PROVE Durable'
    <2>1. Checkpoint(w, prog[w], row[job[w]].man) /\ UNCHANGED <<prog, verdict>>
      BY <1>7 DEF Save
    <2>2. Rows
      BY <1>a, <1>f, <2>1, CheckpointDurable DEF Rows
    <2>3. QED BY <1>d, <1>e, <2>1, <2>2
  <1>8. ASSUME NEW w \in Workers, Sync(w) PROVE Durable'
    <2>1. Rows
      <3>1. UNCHANGED row \/ Checkpoint(w, prog[w], man'[w])
        BY <1>8 DEF Sync
      <3>2. QED BY <1>a, <1>c, <1>f, <3>1, CheckpointDurable DEF Rows
    <2>2. Mine
      <3>1. Downloaded(prog[w]) = Symbols => Keys \subseteq Given'
        BY <1>b, <1>f, BackedComplete
      <3>2. \/ Decide(w, "PAUSED")
            \/ Decide(w, "COMPLETED") /\ Keys \subseteq Given'
            \/ Decide(w, ShortVerdict(prog[w]))
        BY <1>8, <3>1 DEF Sync
      <3>3. ShortVerdict(prog[w]) # "COMPLETED"
        BY DEF ShortVerdict
      <3>4. UNCHANGED prog
        BY <1>8 DEF Sync
      <3>5. QED BY <1>a, <1>b, <3>2, <3>3, <3>4, WorkersStay DEF Mine, Decide
    <2>3. QED BY <1>e, <2>1, <2>2
  <1>9. ASSUME NEW w \in Workers, ExportFull(w) PROVE Durable'
    <2>1. UNCHANGED row
      BY <1>9 DEF ExportFull
    <2>2. UNCHANGED verdict \/ Decide(w, "PAUSED") \/ Decide(w, "FAILED")
      BY <1>9 DEF ExportFull
    <2>3. \A v \in Workers : prog'[v] = prog[v] \/ Backed(prog'[v], Given')
      <3>1. CASE UNCHANGED prog
        BY <3>1
      <3>2. CASE \E k \in corrupt \cap man[w].chunks :
                   SetSymbol(w, k[1], RejectedByExport(prog[w][k[1]], k[2]))
        <4>1. PICK k \in Keys : SetSymbol(w, k[1], RejectedByExport(prog[w][k[1]], k[2]))
          BY <3>2 DEF Typed, TypeOK
        <4>2. k[1] \in Symbols /\ k[2] \in Windows
          BY DEF Keys
        <4>3. prog[w][k[1]] \in SymRecord
          BY <4>2, Positions
        <4>4. LET q == RejectedByExport(prog[w][k[1]], k[2])
              IN  q \in SymRecord /\ q.done = prog[w][k[1]].done /\ q.status = "FAILED"
          BY <4>2, <4>3 DEF RejectedByExport, SymRecord, SymStatus
        <4>5. {k[1]} \X prog[w][k[1]].done \subseteq Given'
          BY <1>f, <4>2 DEF Backed
        <4>6. QED BY <1>a, <4>1, <4>2, <4>4, <4>5, SetSymbolDurable
      <3>3. QED BY <1>9, <3>1, <3>2 DEF ExportFull
    <2>4. Mine
      BY <1>a, <1>b, <2>2, <2>3, WorkersStay DEF Mine, Decide
    <2>5. QED BY <1>c, <1>e, <2>1, <2>4
  <1>10. ASSUME NEW w \in Workers, ExportPartial(w) PROVE Durable'
    BY <1>10, <1>c, <1>d, <1>e DEF ExportPartial
  <1>h. ASSUME NEW w \in Workers, WriteVerdict(w) PROVE Rows
    <2> DEFINE r == Finished(row[job[w]], verdict[w], prog[w], man[w])
    <2>1. job[w] \in Jobs /\ r.prog = prog[w] /\ r.status = verdict[w]
      BY <1>b, Positions DEF Finished, Row
    <2>2. verdict[w] = "COMPLETED" => Keys \subseteq Given'
      BY <1>a DEF Durable
    <2>3. QED BY <1>h, <1>a, <1>b, <1>f, <2>1, <2>2, RowsStay DEF WriteVerdict, Rows
  <1>11. ASSUME NEW w \in Workers, Finish(w) PROVE Durable'
    <2>1. Mine
      BY <1>11, <1>a, ForgetDurable DEF Finish, Mine
    <2>2. QED BY <1>11, <1>h, <1>e, <2>1 DEF Finish
  <1>12. ASSUME NEW w \in Workers, Crash(w) PROVE Durable'
    <2>1. Mine
      BY <1>12, <1>a, ForgetDurable DEF Crash, Mine
    <2>2. QED BY <1>12, <1>c, <1>e, <2>1 DEF Crash
  <1>13. ASSUME NEW w \in Workers, StoreError(w) PROVE Durable'
    <2>1. Rows
      BY <1>13, <1>c, <1>h DEF StoreError
    <2>2. Mine
      BY <1>13, <1>a, <1>b, WorkersStay DEF StoreError, Mine, Decide
    <2>3. QED BY <1>e, <2>1, <2>2
  <1>i. ASSUME NEW w \in Workers, GiveUp(w) PROVE Durable'
    <2>1. Rows
      <3> DEFINE r == Finished(row[job[w]], "FAILED", row[job[w]].prog, row[job[w]].man)
      <3>1. job[w] \in Jobs /\ r.prog = row[job[w]].prog /\ r.status = "FAILED"
        BY <1>b, Positions DEF Finished, Row
      <3>2. \/ UNCHANGED row
            \/ row' = [row EXCEPT ![job[w]] = r]
        BY <1>i DEF GiveUp
      <3>3. QED BY <1>a, <1>b, <1>c, <3>1, <3>2, RowsStay DEF Rows
    <2>2. Mine
      BY <1>i, <1>a, ForgetDurable DEF GiveUp, Mine
    <2>3. QED BY <1>e, <2>1, <2>2
  <1>j. ASSUME NEW w \in Workers, ClaimUnheard(w) PROVE Durable'
    <2>1. Rows
      BY <1>j, <1>g DEF ClaimUnheard
    <2>2. QED BY <1>j, <1>d, <1>e, <2>1 DEF ClaimUnheard, local
  <1>14. ASSUME NEW j \in Jobs, Stop(j) \/ Resume(j) PROVE Durable'
    <2>1. /\ Stopped(row[j]).prog = row[j].prog /\ Stopped(row[j]).status = row[j].status
          /\ Restored(row[j]).prog = row[j].prog /\ Restored(row[j]).status = "QUEUED"
      BY <1>b DEF Stopped, Restored, Row
    <2>2. Rows
      BY <1>14, <1>a, <1>b, <2>1, RowsStay DEF Stop, Resume, Rows
    <2>3. QED BY <1>14, <1>d, <1>e, <2>2 DEF Stop, Resume, local
  <1>15. CASE UNCHANGED <<row, prog, verdict>>
    BY <1>15, <1>c, <1>d, <1>e
  <1>16. ASSUME NEW w \in Workers, Restart(w) PROVE Durable'
    BY <1>16, <1>15 DEF Restart, local
  <1>17. ASSUME NEW j \in Jobs, HeartbeatAges(j) PROVE Durable'
    BY <1>17, <1>15 DEF HeartbeatAges, local
  <1>18. ASSUME NEW k \in Keys, Corrupt(k) \/ Lose(k) PROVE Durable'
    BY <1>18, <1>15 DEF Corrupt, Lose, local
  <1>19. CASE UNCHANGED vars
    BY <1>19, <1>15 DEF vars, local
  <1>20. QED
    BY <1>1, <1>2, <1>3, <1>4, <1>5, <1>6, <1>7, <1>8, <1>9, <1>10, <1>11, <1>12,
       <1>13, <1>i, <1>j, <1>14, <1>16, <1>17, <1>18, <1>19 DEF Next, Execute

LEMMA AlwaysDurable == Spec => [](Typed /\ Durable)
  <1>1. Init => Typed /\ Durable
    BY InitTyped, InitDurable
  <1>2. Typed /\ Durable /\ [Next]_vars => (Typed /\ Durable)'
    BY StepTyped, StepDurable
  <1>3. QED BY <1>1, <1>2, PTL DEF Spec

\* A checkpoint never records a window the bucket was not given, for every
\* number of workers and whatever crashes, stalls or overwrites happen.
THEOREM CheckpointsHold == Spec => []CheckpointIsDurable
  <1>1. Typed /\ Durable => CheckpointIsDurable
    BY DEF Durable, Backed, CheckpointIsDurable
  <1>2. QED BY <1>1, AlwaysDurable, PTL

\* A job is never COMPLETED with a window that was never put.
THEOREM CompletionHolds == Spec => []CompletedIsDurable
  <1>1. Typed /\ Durable => CompletedIsDurable
    BY DEF Durable
  <1>2. QED BY <1>1, AlwaysDurable, PTL

-----------------------------------------------------------------------------
(* The build implements DurableBuild                                       *)

complete == {j \in Jobs : row[j].status = "COMPLETED"}

\* A step that gives the bucket nothing and leaves the status of every job but
\* one is a stutter, a Reopen, or, when the windows are all there, a Complete.
LEMMA StatusStep ==
  ASSUME Typed, Typed', UNCHANGED Given, NEW j \in Jobs,
         \A i \in Jobs \ {j} : row'[i].status = row[i].status,
         row'[j].status = "COMPLETED" => Keys \subseteq Given
  PROVE  DB!Next \/ UNCHANGED <<Given, complete>>
  <1>1. CASE row'[j].status = "COMPLETED"
    <2>1. complete' = complete \cup {j}
      BY <1>1 DEF complete
    <2>2. DB!Complete(j)
      BY <1>1, <2>1 DEF DB!Complete, complete
    <2>3. QED BY <2>2 DEF DB!Next
  <1>2. CASE row'[j].status # "COMPLETED"
    <2>1. complete' = complete \ {j}
      BY <1>2 DEF complete
    <2>2. DB!Reopen(j)
      BY <2>1 DEF DB!Reopen, complete
    <2>3. QED BY <2>2 DEF DB!Next
  <1>3. QED BY <1>1, <1>2

LEMMA CheckpointStatus ==
  ASSUME Typed, NEW w \in Workers, NEW p, NEW m, Checkpoint(w, p, m)
  PROVE  \A j \in Jobs : row'[j].status = row[j].status
  <1>1. Checkpointed(row[job[w]], w, p, m).status = row[job[w]].status
    BY DEF Typed, TypeOK, Checkpointed, Row
  <1>2. QED BY <1>1 DEF Checkpoint, Typed, TypeOK

LEMMA StepRefines ==
  Typed /\ Typed' /\ Durable /\ [Next]_vars => [DB!Next]_<<Given, complete>>
  <1> SUFFICES ASSUME Typed, Typed', Durable, [Next]_vars
               PROVE  DB!Next \/ UNCHANGED <<Given, complete>>
    BY DEF complete
  <1>a. row \in [Jobs -> Row]
    BY DEF Typed, TypeOK
  <1>b. ASSUME UNCHANGED bucket PROVE UNCHANGED Given
    BY <1>b DEF bucket, Given, Present
  <1>c. ASSUME UNCHANGED bucket, \A j \in Jobs : row'[j].status = row[j].status
        PROVE  UNCHANGED <<Given, complete>>
    BY <1>b, <1>c DEF complete
  <1>1. ASSUME NEW w \in Workers, Recover(w) PROVE UNCHANGED <<Given, complete>>
    <2>1. \A j \in Jobs : Requeued(row[j]).status = "QUEUED"
      BY <1>a DEF Requeued, Row
    <2>2. complete' = complete
      BY <1>1, <2>1 DEF Recover, Overdue, complete
    <2>3. QED BY <1>1, <1>b, <2>2 DEF Recover
  <1>2. ASSUME NEW w \in Workers, Claim(w) \/ ClaimUnheard(w)
        PROVE  UNCHANGED <<Given, complete>>
    <2>1. PICK j \in Claimable : row' = [row EXCEPT ![j] = Claimed(@, w)]
      BY <1>2 DEF Claim, ClaimUnheard, TakeRow
    <2>2. j \in Jobs /\ row[j].status = "QUEUED" /\ Claimed(row[j], w).status = "RUNNING"
      BY <1>a DEF Claimable, Claimed, Row
    <2>3. complete' = complete
      BY <1>a, <2>1, <2>2 DEF complete
    <2>4. QED BY <1>2, <1>b, <2>3 DEF Claim, ClaimUnheard
  <1>3. ASSUME NEW w \in Workers,
               \/ Begin(w) \/ StartSymbol(w) \/ NextWindow(w) \/ Save(w) \/ EndSymbol(w)
               \/ Sync(w) \/ ExportFull(w) \/ ExportPartial(w) \/ ReportExport(w)
        PROVE  UNCHANGED <<Given, complete>>
    <2>1. UNCHANGED row \/ \E p, m : Checkpoint(w, p, m)
      BY <1>3 DEF Begin, StartSymbol, NextWindow, Save, EndSymbol, Sync, ExportFull,
                  ExportPartial, ReportExport
    <2>2. UNCHANGED bucket
      BY <1>3 DEF Begin, StartSymbol, NextWindow, Save, EndSymbol, Sync, ExportFull,
                  ExportPartial, ReportExport
    <2>3. QED BY <1>c, <2>1, <2>2, CheckpointStatus
  <1>d. ASSUME NEW k \in Keys, Put(k) \/ PutMarker(k), UNCHANGED row
        PROVE  DB!Next \/ UNCHANGED <<Given, complete>>
    <2>1. Given' = Given \cup {k} /\ UNCHANGED complete
      BY <1>d DEF Put, PutMarker, Given, Present, complete
    <2>2. DB!Put(k)
      BY <2>1 DEF DB!Put, complete
    <2>3. QED BY <2>2 DEF DB!Next
  <1>e. ASSUME NEW w \in Workers, WriteVerdict(w), UNCHANGED bucket
        PROVE  DB!Next \/ UNCHANGED <<Given, complete>>
    <2>1. job[w] \in Jobs /\ Finished(row[job[w]], verdict[w], prog[w], man[w]).status = verdict[w]
      BY <1>a, Positions DEF Finished, Row
    <2>2. /\ row'[job[w]].status = verdict[w]
          /\ \A i \in Jobs \ {job[w]} : row'[i].status = row[i].status
      BY <1>e, <1>a, <2>1 DEF WriteVerdict
    <2>3. verdict[w] = "COMPLETED" => Keys \subseteq Given
      BY DEF Durable
    <2>4. QED BY <1>b, <1>e, <2>1, <2>2, <2>3, StatusStep
  <1>4. ASSUME NEW w \in Workers, Work(w) PROVE DB!Next \/ UNCHANGED <<Given, complete>>
    <2>1. <<sym[w], win[w]>> \in Keys
      BY <1>4, Positions DEF Work, Keys
    <2>2. /\ UNCHANGED row
          /\ UNCHANGED bucket \/ Put(<<sym[w], win[w]>>) \/ PutMarker(<<sym[w], win[w]>>)
      BY <1>4 DEF Work
    <2>3. QED BY <1>c, <1>d, <2>1, <2>2
  <1>5. ASSUME NEW w \in Workers, Finish(w) PROVE DB!Next \/ UNCHANGED <<Given, complete>>
    BY <1>5, <1>e DEF Finish
  <1>6. ASSUME NEW w \in Workers, StoreError(w) PROVE DB!Next \/ UNCHANGED <<Given, complete>>
    <2>1. \/ UNCHANGED <<row, stale, bucket>>
          \/ WriteVerdict(w) /\ UNCHANGED bucket
          \/ pc[w] = "work" /\ PutMarker(<<sym[w], win[w]>>) /\ UNCHANGED row
      BY <1>6 DEF StoreError
    <2>2. pc[w] = "work" => <<sym[w], win[w]>> \in Keys
      BY Positions DEF Keys
    <2>3. QED BY <1>c, <1>d, <1>e, <2>1, <2>2
  <1>f. ASSUME NEW w \in Workers, GiveUp(w) PROVE DB!Next \/ UNCHANGED <<Given, complete>>
    <2> DEFINE r == Finished(row[job[w]], "FAILED", row[job[w]].prog, row[job[w]].man)
    <2>1. job[w] \in Jobs /\ r.status = "FAILED"
      BY <1>a, Positions DEF Finished, Row
    <2>2. UNCHANGED row \/ row' = [row EXCEPT ![job[w]] = r]
      BY <1>f DEF GiveUp
    <2>3. UNCHANGED bucket
      BY <1>f DEF GiveUp
    <2>4. CASE UNCHANGED row
      BY <1>c, <2>3, <2>4
    <2>5. CASE row' = [row EXCEPT ![job[w]] = r]
      <3>1. /\ row'[job[w]].status = "FAILED"
            /\ \A i \in Jobs \ {job[w]} : row'[i].status = row[i].status
        BY <1>a, <2>1, <2>5
      <3>2. QED BY <1>b, <2>1, <2>3, <3>1, StatusStep
    <2>6. QED BY <2>2, <2>4, <2>5
  <1>7. ASSUME NEW j \in Jobs, Stop(j) PROVE UNCHANGED <<Given, complete>>
    <2>1. Stopped(row[j]).status = row[j].status
      BY <1>a DEF Stopped, Row
    <2>2. QED BY <1>7, <1>a, <1>c, <2>1 DEF Stop
  <1>8. ASSUME NEW j \in Jobs, Resume(j) PROVE DB!Next \/ UNCHANGED <<Given, complete>>
    <2>1. Restored(row[j]).status = "QUEUED"
      BY <1>a DEF Restored, Row
    <2>2. /\ row'[j].status = "QUEUED"
          /\ \A i \in Jobs \ {j} : row'[i].status = row[i].status
      BY <1>8, <1>a, <2>1 DEF Resume
    <2>3. UNCHANGED Given
      BY <1>8, <1>b DEF Resume
    <2>4. QED BY <2>2, <2>3, StatusStep
  <1>9. ASSUME NEW w \in Workers, Crash(w) \/ Restart(w) PROVE UNCHANGED <<Given, complete>>
    BY <1>9, <1>c DEF Crash, Restart
  <1>10. ASSUME NEW j \in Jobs, HeartbeatAges(j) PROVE UNCHANGED <<Given, complete>>
    BY <1>10, <1>c DEF HeartbeatAges
  <1>11. ASSUME NEW k \in Keys, Corrupt(k) \/ Lose(k) PROVE UNCHANGED <<Given, complete>>
    <2>1. UNCHANGED row
      BY <1>11 DEF Corrupt, Lose
    <2>2. UNCHANGED Given
      BY <1>11 DEF Corrupt, Lose, Given, Present
    <2>3. QED BY <2>1, <2>2 DEF complete
  <1>12. CASE UNCHANGED vars
    BY <1>12, <1>c DEF vars
  <1>13. QED
    BY <1>1, <1>2, <1>3, <1>4, <1>5, <1>6, <1>f, <1>7, <1>8, <1>9, <1>10, <1>11, <1>12
    DEF Next, Execute

\* Seen as windows given and jobs complete, the build with all its workers,
\* crashes, stalls and clicks is the abstract durable build.
THEOREM BuildRefines == Spec => ImplementsDurableBuild
  <1>1. Init => DB!Init
    BY DEF Init, DB!Init, Given, Present, NewJob
  <1>2. [](Typed /\ Durable) /\ [][Next]_vars => [][DB!Next]_<<Given, complete>>
    BY StepRefines, PTL
  <1>3. QED BY <1>1, <1>2, AlwaysDurable, PTL DEF Spec, ImplementsDurableBuild, DB!Spec, complete

\* The abstract build is worth implementing: by itself it shows a job as COMPLETED only
\* when every window is in the bucket.
THEOREM DurableBuildCompletes == DB!Spec => []CompletedIsDurable
  <1> DEFINE Promise == complete # {} => Keys \subseteq Given
  <1>1. DB!Init => Promise
    BY DEF DB!Init, complete
  <1>2. Promise /\ [DB!Next]_<<Given, complete>> => Promise'
    <2> SUFFICES ASSUME Promise, [DB!Next]_<<Given, complete>> PROVE Promise'
      OBVIOUS
    <2>1. ASSUME NEW k \in Keys, DB!Put(k) PROVE Promise'
      BY <2>1 DEF DB!Put, complete
    <2>2. ASSUME NEW j \in Jobs, DB!Complete(j) \/ DB!Reopen(j) PROVE Promise'
      BY <2>2 DEF DB!Complete, DB!Reopen, complete
    <2> QED BY <2>1, <2>2 DEF DB!Next, complete
  <1>3. Promise => CompletedIsDurable
    BY DEF complete, CompletedIsDurable
  <1> QED BY <1>1, <1>2, <1>3, PTL DEF DB!Spec, complete
-----------------------------------------------------------------------------
(* With a failure detector that is never wrong                             *)

\* A heartbeat grows old only when nobody executes the job, and a job that a
\* worker executes is not resumed.
Careful == "stall" \notin Faults /\ ~ResumeActive

\* A worker that did not hear that its verdict was written: the row shows what it
\* wrote, and it is about to write FAILED.
Unheard(w) ==
  /\ pc[w] = "finish" /\ verdict[w] = "FAILED"
  /\ row[job[w]].status \in Settled /\ row[job[w]].owner = NoWorker
  /\ row[job[w]].prog = prog[w] /\ row[job[w]].man = man[w]

\* While a worker executes a job, the row is RUNNING (or its own verdict) and
\* fresh, no other worker has the job, and the worker's progress is not behind
\* the row's.
Ahead(r, p) == \A s \in Symbols : r.prog[s].done \subseteq p[s].done
Mine(w) == /\ row[job[w]].status = "RUNNING" \/ Unheard(w)
           /\ job[w] \notin stale
           /\ Ahead(row[job[w]], prog[w])
Sole == OneExecutor /\ \A w \in Workers : Executing(w) => Mine(w)

\* What a step may make of the rows: VerdictStands, QueuedIsClaimed and
\* ProgressIsKept, for each job.
Demoted(j) ==
  /\ row'[j] = [row[j] EXCEPT !.status = "FAILED"]
  /\ \E w \in Workers : Executing(w) /\ job[w] = j /\ verdict[w] = "FAILED"
Moves ==
  \A j \in Jobs :
     /\ Ahead(row[j], row'[j].prog)
     /\ row[j].status \in Settled /\ row'[j].status # row[j].status
          => (row'[j].status = "QUEUED" /\ clicks' > clicks) \/ Demoted(j)
     /\ row[j].status = "QUEUED" /\ row'[j].status # "QUEUED" => row'[j].status = "RUNNING"

\* The two kinds of steps of an executing worker: it goes on, or it leaves.
Aside(w) ==
  /\ \A v \in Workers \ {w} : pc'[v] = pc[v] /\ job'[v] = job[v] /\ prog'[v] = prog[v]
  /\ \A j \in Jobs \ {job[w]} : row'[j] = row[j]
  /\ stale' \subseteq stale
Bystanders(w) == \A v \in Workers \ {w} : man'[v] = man[v] /\ verdict'[v] = verdict[v]
GoesOn(w) ==
  /\ Executing(w) /\ pc[w] # "finish" /\ pc'[w] \notin {"down", "idle"} /\ job'[w] = job[w]
  /\ row'[job[w]].status = row[job[w]].status
  /\ \A s \in Symbols : prog[w][s].done \subseteq prog'[w][s].done
  /\ row'[job[w]].prog \in {row[job[w]].prog, prog'[w]}
LeavesJob(w) ==
  /\ Executing(w) /\ pc'[w] \in {"down", "idle"}
  /\ row'[job[w]].status \in {"RUNNING"} \cup Settled
  /\ row'[job[w]].prog \in {row[job[w]].prog, prog[w]}

\* What it may write over a settled row.
Rewrites(w) ==
  row[job[w]].status = "RUNNING" \/ row'[job[w]] = row[job[w]] \/ Demoted(job[w])

\* The others keep their jobs.
LEMMA OthersStand ==
  ASSUME Typed, Sole, NEW w \in Workers, Executing(w), Aside(w), Bystanders(w),
         NEW v \in Workers, v # w, Executing(v)'
  PROVE  Executing(v) /\ job'[v] = job[v] /\ Mine(v)'
  <1>1. /\ Executing(v) /\ pc'[v] = pc[v] /\ job'[v] = job[v] /\ prog'[v] = prog[v]
        /\ man'[v] = man[v] /\ verdict'[v] = verdict[v]
    BY DEF Aside, Bystanders, Executing
  <1>2. job[v] # job[w] /\ job[v] \in Jobs
    BY <1>1 DEF Sole, OneExecutor, Typed, TypeOK
  <1>3. row'[job'[v]] = row[job[v]] /\ job'[v] \notin stale'
    BY <1>1, <1>2 DEF Aside, Sole, Mine
  <1>4. Mine(v)
    BY <1>1 DEF Sole
  <1> QED BY <1>1, <1>3, <1>4 DEF Mine, Unheard, Ahead

LEMMA GoingOn ==
  ASSUME Typed, Sole, NEW w \in Workers, Aside(w), Bystanders(w), GoesOn(w)
  PROVE  Sole' /\ Moves
  <1>1. job[w] \in Jobs /\ Mine(w) /\ row[job[w]].status = "RUNNING"
    BY DEF Sole, GoesOn, Typed, TypeOK, Mine, Unheard
  <1>2. \A v \in Workers : Executing(v)' => Executing(v) /\ job'[v] = job[v]
    BY DEF Aside, GoesOn, Executing
  <1>3. OneExecutor'
    BY <1>2 DEF Sole, OneExecutor
  <1>4. ASSUME NEW v \in Workers, v # w, Executing(v)' PROVE Mine(v)'
    BY <1>4, OthersStand DEF GoesOn
  <1>5. Mine(w)'
    <2>1. row'[job'[w]].status = "RUNNING" /\ job'[w] \notin stale'
      BY <1>1 DEF Mine, GoesOn, Aside
    <2>2. \A s \in Symbols : row'[job[w]].prog[s].done \subseteq prog'[w][s].done
      BY <1>1 DEF Mine, GoesOn, Ahead
    <2> QED BY <2>1, <2>2 DEF Mine, Ahead, GoesOn
  <1>6. Ahead(row[job[w]], row'[job[w]].prog)
    BY <1>1 DEF Mine, GoesOn, Ahead
  <1>7. Moves
    BY <1>1, <1>6 DEF Moves, Aside, GoesOn, Ahead
  <1> QED BY <1>3, <1>4, <1>5, <1>7 DEF Sole

LEMMA Leaving ==
  ASSUME Typed, Sole, NEW w \in Workers, Aside(w), Bystanders(w), LeavesJob(w), Rewrites(w)
  PROVE  Sole' /\ Moves
  <1>1. job[w] \in Jobs /\ Mine(w)
    BY DEF Sole, LeavesJob, Typed, TypeOK
  <1>2. \A v \in Workers : Executing(v)' => v # w /\ Executing(v) /\ job'[v] = job[v]
    BY DEF Aside, LeavesJob, Executing
  <1>3. OneExecutor'
    BY <1>2 DEF Sole, OneExecutor
  <1>4. ASSUME NEW v \in Workers, Executing(v)' PROVE Mine(v)'
    BY <1>2, <1>4, OthersStand DEF LeavesJob
  <1>5. Ahead(row[job[w]], row'[job[w]].prog)
    BY <1>1 DEF Mine, LeavesJob, Ahead
  <1>6. row[job[w]].status \in {"RUNNING"} \cup Settled
    BY <1>1 DEF Mine, Unheard
  <1>7. /\ row[job[w]].status \in Settled /\ row'[job[w]].status # row[job[w]].status
             => Demoted(job[w])
        /\ row[job[w]].status # "QUEUED"
    BY <1>6 DEF Rewrites, Settled
  <1>8. Moves
    BY <1>5, <1>7 DEF Moves, Aside, Ahead
  <1> QED BY <1>3, <1>4, <1>8 DEF Sole

\* A step that touches no worker, and no row but that of a job nobody executes.
LEMMA Standing ==
  ASSUME Typed, Sole, UNCHANGED <<job, prog, man, verdict>>,
         \A v \in Workers : Executing(v)' => Executing(v) /\ pc'[v] = pc[v],
         \A v \in Workers : Executing(v) =>
            /\ row'[job[v]].status = row[job[v]].status
            /\ row'[job[v]].prog = row[job[v]].prog
            /\ row'[job[v]].man = row[job[v]].man
            /\ row'[job[v]].owner = row[job[v]].owner
            /\ job[v] \notin stale'
  PROVE  Sole'
  <1>1. OneExecutor'
    BY DEF Sole, OneExecutor
  <1>2. ASSUME NEW v \in Workers, Executing(v)' PROVE Mine(v)'
    BY <1>2 DEF Sole, Mine, Unheard, Ahead
  <1> QED BY <1>1, <1>2 DEF Sole

LEMMA CheckpointFacts ==
  ASSUME Typed, NEW w \in Workers, NEW p, NEW m, Checkpoint(w, p, m)
  PROVE  /\ row'[job[w]].status = row[job[w]].status /\ row'[job[w]].prog = p
         /\ \A j \in Jobs \ {job[w]} : row'[j] = row[j]
         /\ stale' \subseteq stale
  <1>1. /\ Checkpointed(row[job[w]], w, p, m).status = row[job[w]].status
        /\ Checkpointed(row[job[w]], w, p, m).prog = p
    BY DEF Typed, TypeOK, Checkpointed, Row
  <1>2. job[w] \in Jobs /\ row \in [Jobs -> Row]
    BY DEF Typed, TypeOK
  <1> QED BY <1>1, <1>2 DEF Checkpoint

\* A worker's progress only grows while it executes a job.
LEMMA SymbolGrows ==
  ASSUME NEW p \in SymRecord, NEW c \in Windows
  PROVE  /\ p.done \subseteq Saved(p, c).done
         /\ p.done \subseteq Rejected(p, c, p.done).done
         /\ p.done \subseteq Rejected(p, c, p.done \cup {c}).done
         /\ p.done \subseteq PausedSymbol(p).done
         /\ p.done \subseteq RejectedByExport(p, c).done
  BY DEF Saved, Rejected, PausedSymbol, RejectedByExport, SymRecord

LEMMA SetSymbolGrows ==
  ASSUME Typed, NEW w \in Workers, NEW s \in Symbols, NEW q,
         prog[w][s].done \subseteq q.done, SetSymbol(w, s, q)
  PROVE  /\ \A t \in Symbols : prog[w][t].done \subseteq prog'[w][t].done
         /\ \A v \in Workers \ {w} : prog'[v] = prog[v]
  <1>1. prog[w] \in Progress /\ prog \in [Workers -> Progress]
    BY DEF Typed, TypeOK
  <1>2. prog'[w] = [prog[w] EXCEPT ![s] = q]
    BY <1>1 DEF SetSymbol
  <1>3. \A t \in Symbols : prog'[w][t] = IF t = s THEN q ELSE prog[w][t]
    BY <1>1, <1>2 DEF Progress
  <1> QED BY <1>1, <1>3 DEF SetSymbol

\* Nothing but checkpoints, whose progress the worker has.
LEMMA CheckpointGoesOn ==
  ASSUME Typed, NEW w \in Workers, Executing(w), pc[w] # "finish", pc'[w] \notin {"down", "idle"},
         \A v \in Workers \ {w} : pc'[v] = pc[v], UNCHANGED <<job, prog>>,
         UNCHANGED <<row, stale>> \/ \E m : Checkpoint(w, prog[w], m)
  PROVE  Aside(w) /\ GoesOn(w)
  <1>1. CASE UNCHANGED <<row, stale>>
    BY <1>1 DEF Aside, GoesOn
  <1>2. CASE \E m : Checkpoint(w, prog[w], m)
    BY <1>2, CheckpointFacts DEF Aside, GoesOn
  <1> QED BY <1>1, <1>2

LEMMA Executes ==
  ASSUME Typed, NEW w \in Workers,
         Execute(w) \/ ReportExport(w), ~Finish(w)
  PROVE  Aside(w) /\ GoesOn(w)
  <1> USE DEF Executing
  <1>a. pc \in [Workers -> Phases]
    BY DEF Typed, TypeOK
  <1>1. CASE Begin(w) \/ StartSymbol(w) \/ Save(w) \/ EndSymbol(w)
    <2>1. /\ Executing(w) /\ pc[w] # "finish" /\ pc'[w] \notin {"down", "idle"}
          /\ \A v \in Workers \ {w} : pc'[v] = pc[v]
      BY <1>1, <1>a DEF Begin, StartSymbol, Save, EndSymbol, Goto
    <2>2. UNCHANGED <<job, prog>>
      BY <1>1 DEF Begin, StartSymbol, Save, EndSymbol
    <2>3. UNCHANGED <<row, stale>> \/ \E m : Checkpoint(w, prog[w], m)
      BY <1>1 DEF Begin, StartSymbol, Save, EndSymbol
    <2> QED BY <2>1, <2>2, <2>3, CheckpointGoesOn
  <1>2. CASE Sync(w) \/ ReportExport(w) \/ ExportPartial(w)
    <2>1. /\ Executing(w) /\ pc[w] # "finish" /\ pc'[w] \notin {"down", "idle"}
          /\ \A v \in Workers \ {w} : pc'[v] = pc[v]
      BY <1>2, <1>a DEF Sync, ReportExport, ExportPartial, Goto
    <2>2. UNCHANGED <<job, prog>>
      BY <1>2 DEF Sync, ReportExport, ExportPartial, local
    <2>3. UNCHANGED <<row, stale>> \/ \E m : Checkpoint(w, prog[w], m)
      BY <1>2 DEF Sync, ReportExport, ExportPartial
    <2> QED BY <2>1, <2>2, <2>3, CheckpointGoesOn
  <1>3. CASE NextWindow(w)
    <2>1. /\ Executing(w) /\ pc[w] # "finish" /\ pc'[w] \notin {"down", "idle"} /\ UNCHANGED job
          /\ \A v \in Workers \ {w} : pc'[v] = pc[v]
      BY <1>3, <1>a DEF NextWindow, Goto
    <2>2. CASE ~StopRequested(w)
      <3>1. UNCHANGED <<row, stale, prog>>
        BY <1>3, <2>2 DEF NextWindow
      <3> QED BY <2>1, <3>1, CheckpointGoesOn
    <2>3. CASE StopRequested(w)
      <3>1. sym[w] \in Symbols /\ prog[w][sym[w]] \in SymRecord /\ win[w] \in Windows
        BY <1>3, Positions DEF NextWindow
      <3>2. prog[w][sym[w]].done \subseteq PausedSymbol(prog[w][sym[w]]).done
        BY <3>1, SymbolGrows
      <3>3. /\ SetSymbol(w, sym[w], PausedSymbol(prog[w][sym[w]]))
            /\ Checkpoint(w, prog'[w], man[w])
        BY <1>3, <2>3 DEF NextWindow
      <3>4. /\ \A s \in Symbols : prog[w][s].done \subseteq prog'[w][s].done
            /\ \A v \in Workers \ {w} : prog'[v] = prog[v]
        BY <3>1, <3>2, <3>3, SetSymbolGrows
      <3>5. /\ row'[job[w]].status = row[job[w]].status /\ row'[job[w]].prog = prog'[w]
            /\ \A j \in Jobs \ {job[w]} : row'[j] = row[j]
            /\ stale' \subseteq stale
        BY <3>3, CheckpointFacts
      <3> QED BY <2>1, <3>4, <3>5 DEF Aside, GoesOn
    <2> QED BY <2>2, <2>3
  <1>4. CASE Work(w)
    <2> DEFINE s == sym[w]
               c == win[w]
               p == prog[w][s]
    <2>1. s \in Symbols /\ c \in Windows /\ p \in SymRecord
      BY <1>4, Positions DEF Work
    <2>2. PICK q \in {Saved(p, c), Rejected(p, c, p.done), Rejected(p, c, p.done \cup {c})} :
            SetSymbol(w, s, q)
      BY <1>4 DEF Work
    <2>3. p.done \subseteq q.done
      BY <2>1, <2>2, SymbolGrows
    <2>4. /\ \A t \in Symbols : prog[w][t].done \subseteq prog'[w][t].done
          /\ \A v \in Workers \ {w} : prog'[v] = prog[v]
      BY <2>1, <2>2, <2>3, SetSymbolGrows
    <2>5. /\ Executing(w) /\ pc[w] # "finish" /\ pc'[w] \notin {"down", "idle"}
          /\ \A v \in Workers \ {w} : pc'[v] = pc[v]
          /\ UNCHANGED <<row, stale, job>>
      BY <1>4, <1>a DEF Work, Goto
    <2> QED BY <2>4, <2>5 DEF Aside, GoesOn
  <1>5. CASE ExportFull(w)
    <2>1. /\ Executing(w) /\ pc[w] # "finish" /\ pc'[w] \notin {"down", "idle"}
          /\ \A v \in Workers \ {w} : pc'[v] = pc[v]
          /\ UNCHANGED <<row, stale, job>>
      BY <1>5, <1>a DEF ExportFull, Goto
    <2>2. CASE UNCHANGED prog
      BY <2>1, <2>2, CheckpointGoesOn
    <2>3. CASE ~UNCHANGED prog
      <3>1. PICK k \in corrupt \cap man[w].chunks :
              SetSymbol(w, k[1], RejectedByExport(prog[w][k[1]], k[2]))
        BY <1>5, <2>3 DEF ExportFull
      <3>2. k \in Keys
        BY DEF Typed, TypeOK
      <3>3. k[1] \in Symbols /\ k[2] \in Windows /\ prog[w][k[1]] \in SymRecord
        BY <3>2, Positions DEF Keys
      <3>4. prog[w][k[1]].done \subseteq RejectedByExport(prog[w][k[1]], k[2]).done
        BY <3>3, SymbolGrows
      <3>5. /\ \A t \in Symbols : prog[w][t].done \subseteq prog'[w][t].done
            /\ \A v \in Workers \ {w} : prog'[v] = prog[v]
        BY <3>1, <3>3, <3>4, SetSymbolGrows
      <3> QED BY <2>1, <3>5 DEF Aside, GoesOn
    <2> QED BY <2>2, <2>3
  <1> QED BY <1>1, <1>2, <1>3, <1>4, <1>5 DEF Execute

\* No step of a worker touches what another one is doing.
LEMMA OthersKeep ==
  ASSUME Typed, NEW w \in Workers,
         \/ Execute(w) \/ ReportExport(w) \/ Claim(w) \/ Restart(w) \/ Crash(w) \/ Recover(w)
         \/ StoreError(w) \/ GiveUp(w) \/ ClaimUnheard(w),
         NEW v \in Workers, v # w
  PROVE  pc'[v] = pc[v] /\ man'[v] = man[v] /\ verdict'[v] = verdict[v]
  <1>a. /\ pc \in [Workers -> Phases] /\ verdict \in [Workers -> Settled]
        /\ man \in [Workers -> Manifest]
    BY DEF Typed, TypeOK
  <1>1. CASE Begin(w) \/ StartSymbol(w) \/ NextWindow(w) \/ Work(w) \/ Save(w) \/ EndSymbol(w)
    BY <1>1, <1>a DEF Begin, StartSymbol, NextWindow, Work, Save, EndSymbol, Goto, Decide
  <1>2. CASE Sync(w) \/ ExportFull(w) \/ ExportPartial(w) \/ Finish(w) \/ ReportExport(w)
    BY <1>2, <1>a DEF Sync, ExportFull, ExportPartial, Finish, ReportExport, Goto, Decide,
                      Forget, local
  <1>3. CASE Claim(w) \/ Restart(w) \/ Recover(w) \/ ClaimUnheard(w)
    BY <1>3, <1>a DEF Claim, Restart, Recover, ClaimUnheard, Goto, local
  <1>4. CASE Crash(w) \/ StoreError(w) \/ GiveUp(w)
    BY <1>4, <1>a DEF Crash, StoreError, GiveUp, Goto, Decide, Forget
  <1> QED BY <1>1, <1>2, <1>3, <1>4 DEF Execute

LEMMA BystandersStay ==
  ASSUME Typed, NEW w \in Workers,
         Execute(w) \/ ReportExport(w) \/ Crash(w) \/ StoreError(w) \/ GiveUp(w)
  PROVE  Bystanders(w)
  BY OthersKeep DEF Bystanders

\* The row after finish_job.
LEMMA VerdictFacts ==
  ASSUME Typed, NEW w \in Workers, WriteVerdict(w)
  PROVE  /\ row'[job[w]] = Finished(row[job[w]], verdict[w], prog[w], man[w])
         /\ row'[job[w]].status = verdict[w] /\ row'[job[w]].owner = NoWorker
         /\ row'[job[w]].prog = prog[w] /\ row'[job[w]].man = man[w]
         /\ \A j \in Jobs \ {job[w]} : row'[j] = row[j]
         /\ stale' \subseteq stale /\ verdict[w] \in Settled
  <1>1. job[w] \in Jobs /\ row \in [Jobs -> Row] /\ verdict[w] \in Settled
    BY DEF Typed, TypeOK
  <1>2. LET r == Finished(row[job[w]], verdict[w], prog[w], man[w])
        IN  /\ r.status = verdict[w] /\ r.owner = NoWorker
            /\ r.prog = prog[w] /\ r.man = man[w]
    BY <1>1 DEF Finished, Row
  <1> QED BY <1>1, <1>2 DEF WriteVerdict

\* Over the worker's own verdict, FAILED changes the status and nothing else.
LEMMA SameRow ==
  ASSUME NEW r \in Row, r.owner = NoWorker
  PROVE  Finished(r, "FAILED", r.prog, r.man) = [r EXCEPT !.status = "FAILED"]
  BY DEF Finished, Row

LEMMA Demotes ==
  ASSUME Typed, NEW w \in Workers, Executing(w), Unheard(w),
         row'[job[w]] = Finished(row[job[w]], "FAILED", row[job[w]].prog, row[job[w]].man)
  PROVE  Demoted(job[w])
  <1>1. row[job[w]] \in Row /\ row[job[w]].owner = NoWorker /\ verdict[w] = "FAILED"
    BY DEF Typed, TypeOK, Unheard
  <1>2. row'[job[w]] = [row[job[w]] EXCEPT !.status = "FAILED"]
    BY <1>1, SameRow
  <1> QED BY <1>1, <1>2 DEF Demoted

LEMMA VerdictRewrites ==
  ASSUME Typed, Sole, NEW w \in Workers, Executing(w), WriteVerdict(w)
  PROVE  Rewrites(w)
  <1>1. CASE row[job[w]].status = "RUNNING"
    BY <1>1 DEF Rewrites
  <1>2. CASE Unheard(w)
    <2>1. /\ verdict[w] = "FAILED" /\ prog[w] = row[job[w]].prog /\ man[w] = row[job[w]].man
      BY <1>2 DEF Unheard
    <2>2. row'[job[w]] = Finished(row[job[w]], "FAILED", row[job[w]].prog, row[job[w]].man)
      BY <2>1, VerdictFacts
    <2> QED BY <1>2, <2>2, Demotes DEF Rewrites
  <1> QED BY <1>1, <1>2 DEF Sole, Mine

LEMMA FinishLeaves ==
  ASSUME Typed, NEW w \in Workers, Finish(w)
  PROVE  Aside(w) /\ LeavesJob(w)
  <1>1. /\ row'[job[w]].status \in Settled /\ row'[job[w]].prog = prog[w]
        /\ \A j \in Jobs \ {job[w]} : row'[j] = row[j]
        /\ stale' \subseteq stale
    BY VerdictFacts DEF Finish
  <1>2. /\ Executing(w) /\ pc'[w] \in {"down", "idle"}
        /\ \A v \in Workers \ {w} : pc'[v] = pc[v] /\ job'[v] = job[v] /\ prog'[v] = prog[v]
    BY DEF Typed, TypeOK, Finish, Goto, Forget, Executing
  <1> QED BY <1>1, <1>2 DEF Aside, LeavesJob

LEMMA CrashLeaves ==
  ASSUME Typed, Sole, NEW w \in Workers, Crash(w)
  PROVE  Aside(w) /\ LeavesJob(w) /\ Rewrites(w)
  <1>1. /\ Executing(w) /\ pc'[w] \in {"down", "idle"} /\ UNCHANGED <<row, stale>>
        /\ \A v \in Workers \ {w} : pc'[v] = pc[v] /\ job'[v] = job[v] /\ prog'[v] = prog[v]
    BY DEF Typed, TypeOK, Crash, Goto, Forget
  <1>2. row[job[w]].status \in {"RUNNING"} \cup Settled
    BY <1>1 DEF Sole, Mine, Unheard
  <1> QED BY <1>1, <1>2 DEF Aside, LeavesJob, Rewrites

LEMMA GiveUpLeaves ==
  ASSUME Typed, NEW w \in Workers, GiveUp(w)
  PROVE  /\ Executing(w) /\ pc'[w] = "idle" /\ Aside(w)
         /\ \/ row'[job[w]] = row[job[w]]
            \/ /\ row'[job[w]] = Finished(row[job[w]], "FAILED", row[job[w]].prog, row[job[w]].man)
               /\ row'[job[w]].status = "FAILED" /\ row'[job[w]].prog = row[job[w]].prog
  <1>1. job[w] \in Jobs /\ row \in [Jobs -> Row]
    BY DEF Typed, TypeOK
  <1> DEFINE r == Finished(row[job[w]], "FAILED", row[job[w]].prog, row[job[w]].man)
  <1>2. r.status = "FAILED" /\ r.prog = row[job[w]].prog
    BY <1>1 DEF Finished, Row
  <1>3. /\ Executing(w) /\ pc'[w] = "idle"
        /\ \A v \in Workers \ {w} : pc'[v] = pc[v] /\ job'[v] = job[v] /\ prog'[v] = prog[v]
    BY DEF Typed, TypeOK, GiveUp, Goto, Forget, Executing
  <1>4. \/ row' = [row EXCEPT ![job[w]] = r] /\ stale' = stale \ {job[w]}
        \/ UNCHANGED <<row, stale>>
    BY DEF GiveUp
  <1> HIDE DEF r
  <1>5. stale' \subseteq stale /\ \A j \in Jobs \ {job[w]} : row'[j] = row[j]
    BY <1>1, <1>4
  <1>6. row'[job[w]] = row[job[w]] \/ row'[job[w]] = r
    BY <1>1, <1>4
  <1> QED BY <1>2, <1>3, <1>5, <1>6 DEF Aside, r

LEMMA GivingUp ==
  ASSUME Typed, Sole, NEW w \in Workers, GiveUp(w)
  PROVE  Sole' /\ Moves
  <1>1. Mine(w) /\ row[job[w]].status \in {"RUNNING"} \cup Settled
    BY GiveUpLeaves DEF Sole, Mine, Unheard
  <1>2. LeavesJob(w)
    BY <1>1, GiveUpLeaves DEF LeavesJob, Settled
  <1>3. Rewrites(w)
    BY <1>1, GiveUpLeaves, Demotes DEF Rewrites, Mine
  <1> QED BY <1>2, <1>3, GiveUpLeaves, BystandersStay, Leaving

\* A call that raises before the verdict is written takes the worker to the finish ...
LEMMA StoreErrorGoesOn ==
  ASSUME Typed, NEW w \in Workers, StoreError(w), pc[w] # "finish"
  PROVE  Aside(w) /\ GoesOn(w)
  <1>1. /\ Executing(w) /\ pc'[w] = "finish" /\ UNCHANGED <<row, stale, job, prog>>
        /\ \A v \in Workers \ {w} : pc'[v] = pc[v]
    BY DEF StoreError, Goto, Typed, TypeOK
  <1> QED BY <1>1, CheckpointGoesOn

\* ... and at the finish the worker stays there, not knowing what the row shows.
LEMMA FinishFails ==
  ASSUME Typed, NEW w \in Workers, StoreError(w), pc[w] = "finish"
  PROVE  /\ Executing(w) /\ pc'[w] = "finish" /\ verdict'[w] = "FAILED" /\ Aside(w)
         /\ UNCHANGED <<job, prog, man>>
         /\ UNCHANGED <<row, stale>> \/ WriteVerdict(w)
  <1>1. /\ Executing(w) /\ pc'[w] = "finish" /\ verdict'[w] = "FAILED"
        /\ \A v \in Workers \ {w} : pc'[v] = pc[v]
        /\ UNCHANGED <<job, prog, man>>
        /\ UNCHANGED <<row, stale>> \/ WriteVerdict(w)
    BY DEF StoreError, Goto, Decide, Typed, TypeOK
  <1>2. stale' \subseteq stale /\ \A j \in Jobs \ {job[w]} : row'[j] = row[j]
    BY <1>1, VerdictFacts
  <1> QED BY <1>1, <1>2 DEF Aside

LEMMA StoreErrorMoves ==
  ASSUME Typed, Sole, NEW w \in Workers, StoreError(w)
  PROVE  Sole' /\ Moves
  <1>1. CASE pc[w] # "finish"
    BY <1>1, StoreErrorGoesOn, BystandersStay, GoingOn
  <1>2. CASE pc[w] = "finish"
    <2>a. job[w] \in Jobs /\ Mine(w) /\ Executing(w)
      BY <1>2, FinishFails DEF Sole, Typed, TypeOK
    <2>1. \A v \in Workers : Executing(v)' => Executing(v) /\ job'[v] = job[v]
      BY <1>2, FinishFails DEF Aside, Executing
    <2>2. OneExecutor'
      BY <2>1 DEF Sole, OneExecutor
    <2>3. ASSUME NEW v \in Workers, v # w, Executing(v)' PROVE Mine(v)'
      BY <1>2, <2>3, FinishFails, BystandersStay, OthersStand
    <2>4. Mine(w)' /\ Ahead(row[job[w]], row'[job[w]].prog)
      <3>1. CASE UNCHANGED <<row, stale>>
        BY <1>2, <2>a, <3>1, FinishFails DEF Mine, Unheard, Ahead
      <3>2. CASE WriteVerdict(w)
        <4>1. Unheard(w)'
          BY <1>2, <3>2, FinishFails, VerdictFacts DEF Unheard
        <4>2. job'[w] \notin stale'
          BY <1>2, <2>a, FinishFails DEF Mine, Aside
        <4>3. row'[job[w]].prog = prog[w] /\ prog'[w] = prog[w] /\ job'[w] = job[w]
          BY <1>2, <3>2, FinishFails, VerdictFacts
        <4> QED BY <2>a, <4>1, <4>2, <4>3 DEF Mine, Ahead
      <3> QED BY <1>2, <3>1, <3>2, FinishFails
    <2>5. Rewrites(w)
      BY <1>2, <2>a, FinishFails, VerdictRewrites DEF Rewrites
    <2>6. /\ row[job[w]].status \in Settled /\ row'[job[w]].status # row[job[w]].status
               => Demoted(job[w])
          /\ row[job[w]].status # "QUEUED"
      BY <2>a, <2>5 DEF Rewrites, Mine, Unheard, Settled
    <2>7. Aside(w)
      BY <1>2, FinishFails
    <2>8. Moves
      BY <2>4, <2>6, <2>7 DEF Moves, Aside, Ahead
    <2> QED BY <2>2, <2>3, <2>4, <2>8 DEF Sole
  <1> QED BY <1>1, <1>2

\* Only Resume and the recovery withdraw a Stop, and nobody executes a job that the
\* recovery takes, whose row is stale.
Kept(j) == row'[j].action = row[j].action \/ row'[j].action = "STOP"

LEMMA CheckpointKeepsStop ==
  ASSUME Typed, NEW w \in Workers, NEW p, NEW m, Checkpoint(w, p, m)
  PROVE  \A j \in Jobs : Kept(j)
  <1>1. Checkpointed(row[job[w]], w, p, m).action = row[job[w]].action
    BY DEF Typed, TypeOK, Checkpointed, Row
  <1>2. QED BY <1>1 DEF Checkpoint, Kept, Typed, TypeOK

\* While no live worker is taken for dead the heartbeat of an executed job is fresh, even
\* of one that several workers execute because it was resumed while it was RUNNING.
Fresh == \A w \in Workers : Executing(w) => job[w] \notin stale

\* No worker starts to execute, and no heartbeat grows old.
Quiet ==
  /\ stale' \subseteq stale
  /\ \A v \in Workers : pc'[v] \notin {"down", "idle"} => Executing(v) /\ job'[v] = job[v]

LEMMA QuietIsFresh == Fresh /\ Quiet => Fresh'
  BY DEF Fresh, Quiet, Executing

LEMMA FreshStep ==
  ASSUME "stall" \notin Faults, Typed, Fresh, [Next]_vars
  PROVE  Fresh'
  <1>a. /\ pc \in [Workers -> Phases] /\ job \in [Workers -> Jobs]
    BY DEF Typed, TypeOK
  <1>1. ASSUME NEW w \in Workers, Execute(w) \/ ReportExport(w) PROVE Quiet
    <2>1. CASE Finish(w)
      BY <2>1, FinishLeaves DEF Aside, LeavesJob, Quiet, Executing
    <2>2. CASE ~Finish(w)
      BY <1>1, <2>2, Executes DEF Aside, GoesOn, Quiet, Executing
    <2> QED BY <2>1, <2>2
  <1>2. ASSUME NEW w \in Workers, Crash(w) \/ Restart(w) PROVE Quiet
    BY <1>2, <1>a DEF Crash, Restart, Goto, Forget, local, Quiet, Executing
  <1>3. ASSUME NEW w \in Workers, StoreError(w) \/ GiveUp(w) PROVE Quiet
    <2>1. CASE StoreError(w) /\ pc[w] # "finish"
      BY <2>1, StoreErrorGoesOn DEF Aside, GoesOn, Quiet, Executing
    <2>2. CASE StoreError(w) /\ pc[w] = "finish"
      BY <2>2, FinishFails DEF Aside, Quiet, Executing
    <2>3. CASE GiveUp(w)
      BY <2>3, GiveUpLeaves DEF Aside, Quiet, Executing
    <2> QED BY <1>3, <2>1, <2>2, <2>3
  <1>b. ASSUME NEW w \in Workers, ClaimUnheard(w) PROVE Quiet
    BY <1>b DEF ClaimUnheard, TakeRow, local, Quiet, Executing
  <1>4. ASSUME NEW w \in Workers, Claim(w) PROVE Fresh'
    <2>1. PICK i \in Jobs : stale' = stale \ {i} /\ job' = [job EXCEPT ![w] = i]
      BY <1>4 DEF Claim, TakeRow, Claimable
    <2>2. pc' = [pc EXCEPT ![w] = "begin"]
      BY <1>4 DEF Claim, Goto
    <2> QED BY <1>a, <2>1, <2>2 DEF Fresh, Executing
  <1>5. ASSUME NEW i \in Jobs, HeartbeatAges(i) PROVE Fresh'
    <2>1. \A v \in Workers : Executing(v) => job[v] # i
      BY <1>5 DEF HeartbeatAges, Fault
    <2>2. UNCHANGED <<pc, job>> /\ stale' = stale \cup {i}
      BY <1>5 DEF HeartbeatAges, local
    <2> QED BY <2>1, <2>2 DEF Fresh, Executing
  <1>6. CASE \/ \E w \in Workers : Recover(w)
             \/ \E i \in Jobs : Stop(i) \/ Resume(i)
             \/ \E k \in Keys : Corrupt(k) \/ Lose(k)
             \/ UNCHANGED vars
    <2>1. stale' = stale /\ pc' = pc /\ job' = job
      BY <1>6 DEF Recover, Stop, Resume, Corrupt, Lose, vars, local
    <2> QED BY <2>1 DEF Fresh, Executing
  <1> QED BY <1>1, <1>2, <1>3, <1>b, <1>4, <1>5, <1>6, QuietIsFresh DEF Next

LEMMA StopStep ==
  ASSUME Typed, Fresh, [Next]_vars, NEW j \in Jobs
  PROVE  \/ Kept(j) \/ clicks' > clicks
         \/ \A w \in Workers : Executing(w) => job[w] # j
  <1>a. /\ row \in [Jobs -> Row] /\ job \in [Workers -> Jobs] /\ clicks \in 0..MaxClicks
        /\ stale \subseteq Jobs
    BY DEF Typed, TypeOK
  <1>b. ASSUME UNCHANGED row PROVE Kept(j)
    BY <1>b DEF Kept
  <1>1. ASSUME NEW w \in Workers, Recover(w)
        PROVE  Kept(j) \/ \A v \in Workers : Executing(v) => job[v] # j
    <2>1. CASE j \in stale
      BY <2>1 DEF Fresh
    <2>2. CASE j \notin stale
      BY <1>1, <1>a, <2>2 DEF Recover, Overdue, Kept
    <2> QED BY <2>1, <2>2
  <1>2. ASSUME NEW w \in Workers, Claim(w) \/ ClaimUnheard(w) PROVE Kept(j)
    <2>1. PICK i \in Jobs : row' = [row EXCEPT ![i] = Claimed(@, w)]
      BY <1>2 DEF Claim, ClaimUnheard, TakeRow, Claimable
    <2>2. Claimed(row[i], w).action = row[i].action
      BY <1>a DEF Claimed, Row
    <2> QED BY <1>a, <2>1, <2>2 DEF Kept
  <1>c. ASSUME NEW w \in Workers, WriteVerdict(w) PROVE Kept(j)
    <2>1. Finished(row[job[w]], verdict[w], prog[w], man[w]).action = row[job[w]].action
      BY <1>a DEF Finished, Row
    <2> QED BY <1>a, <1>c, <2>1 DEF WriteVerdict, Kept
  <1>3. ASSUME NEW w \in Workers, Execute(w) PROVE Kept(j)
    <2>1. CASE Begin(w) \/ NextWindow(w) \/ Save(w) \/ EndSymbol(w) \/ Sync(w)
      BY <1>b, <2>1, CheckpointKeepsStop DEF Begin, NextWindow, Save, EndSymbol, Sync
    <2>2. CASE StartSymbol(w) \/ Work(w) \/ ExportFull(w) \/ ExportPartial(w)
      BY <1>b, <2>2 DEF StartSymbol, Work, ExportFull, ExportPartial
    <2>3. CASE Finish(w)
      BY <1>c, <2>3 DEF Finish
    <2> QED BY <1>3, <2>1, <2>2, <2>3 DEF Execute
  <1>4. ASSUME NEW w \in Workers, ReportExport(w) PROVE Kept(j)
    BY <1>4, CheckpointKeepsStop DEF ReportExport
  <1>d. ASSUME NEW w \in Workers, StoreError(w) PROVE Kept(j)
    BY <1>b, <1>c, <1>d DEF StoreError
  <1>5. ASSUME NEW w \in Workers, GiveUp(w) PROVE Kept(j)
    <2>1. Finished(row[job[w]], "FAILED", row[job[w]].prog, row[job[w]].man).action
            = row[job[w]].action
      BY <1>a DEF Finished, Row
    <2>2. CASE row' = [row EXCEPT ![job[w]] = Finished(@, "FAILED", @.prog, @.man)]
      BY <1>a, <2>1, <2>2 DEF Kept
    <2> QED BY <1>5, <1>b, <2>2 DEF GiveUp
  <1>6. ASSUME NEW i \in Jobs, Stop(i) PROVE Kept(j)
    <2>1. Stopped(row[i]).action = "STOP"
      BY <1>a DEF Stopped, Row
    <2> QED BY <1>6, <1>a, <2>1 DEF Stop, Kept
  <1>7. ASSUME NEW i \in Jobs, Resume(i) PROVE clicks' > clicks
    BY <1>7, <1>a DEF Resume
  <1>8. CASE \/ \E w \in Workers : Crash(w) \/ Restart(w)
             \/ \E i \in Jobs : HeartbeatAges(i)
             \/ \E k \in Keys : Corrupt(k) \/ Lose(k)
             \/ UNCHANGED vars
    BY <1>8, <1>b DEF Crash, Restart, HeartbeatAges, Corrupt, Lose, vars
  <1> QED BY <1>1, <1>2, <1>3, <1>4, <1>d, <1>5, <1>6, <1>7, <1>8 DEF Next

LEMMA InitSole == Init => Sole
  BY DEF Init, Sole, OneExecutor, Executing

LEMMA SoleStep ==
  ASSUME Careful, Typed, Sole, [Next]_vars
  PROVE  Sole' /\ Moves
  <1>a. /\ row \in [Jobs -> Row] /\ pc \in [Workers -> Phases] /\ job \in [Workers -> Jobs]
        /\ prog \in [Workers -> Progress] /\ clicks \in 0..MaxClicks /\ stale \subseteq Jobs
    BY DEF Typed, TypeOK
  <1>b. ASSUME UNCHANGED row PROVE Moves
    BY <1>b DEF Moves, Ahead
  <1>1. ASSUME NEW w \in Workers, Execute(w) \/ ReportExport(w) PROVE Sole' /\ Moves
    <2>1. CASE Finish(w)
      <3>1. Executing(w) /\ Rewrites(w)
        BY <2>1, VerdictRewrites DEF Finish, Executing
      <3> QED BY <1>1, <2>1, <3>1, FinishLeaves, BystandersStay, Leaving
    <2>2. CASE ~Finish(w)
      BY <1>1, <2>2, Executes, BystandersStay, GoingOn
    <2> QED BY <2>1, <2>2
  <1>2. ASSUME NEW w \in Workers, Crash(w) \/ StoreError(w) \/ GiveUp(w) PROVE Sole' /\ Moves
    BY <1>2, CrashLeaves, BystandersStay, Leaving, StoreErrorMoves, GivingUp
  <1>3. ASSUME NEW w \in Workers, Recover(w) PROVE Sole' /\ Moves
    <2>1. \A j \in Jobs : row'[j] = IF j \in stale /\ row[j].status = "RUNNING"
                                    THEN Requeued(row[j]) ELSE row[j]
      BY <1>3 DEF Recover, Overdue
    <2>2. \A j \in Jobs : Requeued(row[j]).status = "QUEUED"
                          /\ Requeued(row[j]).prog = row[j].prog
      BY <1>a DEF Requeued, Row
    <2>3. UNCHANGED <<stale, pc, job, prog, man, verdict>>
      BY <1>3 DEF Recover, local
    <2>4. \A v \in Workers : Executing(v) => row'[job[v]] = row[job[v]]
      BY <1>a, <2>1 DEF Sole, Mine
    <2>5. Sole'
      BY <2>3, <2>4, Standing DEF Executing, Sole, Mine
    <2>6. Moves
      BY <2>1, <2>2 DEF Moves, Ahead, Settled
    <2> QED BY <2>5, <2>6
  <1>c. ASSUME NEW w \in Workers, NEW j \in Claimable, TakeRow(w, j)
        PROVE  /\ j \in Jobs /\ row[j].status = "QUEUED" /\ stale' = stale \ {j}
               /\ row'[j].status = "RUNNING" /\ row'[j].prog = row[j].prog
               /\ \A i \in Jobs \ {j} : row'[i] = row[i]
               /\ \A v \in Workers : Executing(v) => job[v] # j
    <2>1. /\ row' = [row EXCEPT ![j] = Claimed(@, w)]
          /\ stale' = stale \ {j}
      BY <1>c DEF TakeRow
    <2>2. j \in Jobs /\ row[j].status = "QUEUED"
      BY DEF Claimable
    <2>3. Claimed(row[j], w).status = "RUNNING" /\ Claimed(row[j], w).prog = row[j].prog
      BY <1>a, <2>2 DEF Claimed, Row
    <2>4. /\ row'[j].status = "RUNNING" /\ row'[j].prog = row[j].prog
          /\ \A i \in Jobs \ {j} : row'[i] = row[i]
      BY <1>a, <2>1, <2>2, <2>3
    <2>5. \A v \in Workers : Executing(v) => job[v] # j
      BY <2>2 DEF Sole, Mine, Unheard, Settled
    <2> QED BY <2>1, <2>2, <2>4, <2>5
  <1>d. ASSUME NEW w \in Workers, ClaimUnheard(w) PROVE Sole' /\ Moves
    <2>1. PICK j \in Claimable : TakeRow(w, j)
      BY <1>d DEF ClaimUnheard
    <2>2. UNCHANGED <<pc, job, prog, man, verdict>>
      BY <1>d DEF ClaimUnheard, local
    <2>3. \A v \in Workers : Executing(v) => row'[job[v]] = row[job[v]] /\ job[v] \notin stale'
      BY <1>a, <1>c, <2>1 DEF Sole, Mine
    <2>4. Sole'
      BY <2>2, <2>3, Standing DEF Executing
    <2>5. Moves
      BY <1>c, <2>1 DEF Moves, Ahead, Settled
    <2> QED BY <2>4, <2>5
  <1>4. ASSUME NEW w \in Workers, Claim(w) PROVE Sole' /\ Moves
    <2>1. PICK j \in Claimable :
            /\ TakeRow(w, j)
            /\ job' = [job EXCEPT ![w] = j]
            /\ prog' = [prog EXCEPT ![w] = Resumed(row[j])]
      BY <1>4 DEF Claim
    <2>2. j \in Jobs /\ row[j].status = "QUEUED" /\ pc' = [pc EXCEPT ![w] = "begin"]
      BY <1>4, <2>1 DEF Claimable, Claim, Goto
    <2>4. /\ row'[j].status = "RUNNING" /\ row'[j].prog = row[j].prog
          /\ \A i \in Jobs \ {j} : row'[i] = row[i]
      BY <1>c, <2>1
    <2>5. \A v \in Workers : Executing(v) => job[v] # j
      BY <1>c, <2>1
    <2>6. \A v \in Workers \ {w} :
            /\ pc'[v] = pc[v] /\ job'[v] = job[v] /\ prog'[v] = prog[v]
            /\ man'[v] = man[v] /\ verdict'[v] = verdict[v]
      BY <1>4, <1>a, <2>1, <2>2, OthersKeep
    <2>7. job'[w] = j /\ prog'[w] = row[j].prog /\ j \notin stale'
      BY <1>a, <1>c, <2>1, <2>2 DEF Resumed
    <2>8. OneExecutor'
      BY <2>5, <2>6, <2>7 DEF Sole, OneExecutor, Executing
    <2>9. ASSUME NEW v \in Workers, v # w, Executing(v)' PROVE Mine(v)'
      <3>1. Executing(v) /\ job'[v] = job[v] /\ prog'[v] = prog[v] /\ job[v] # j
        BY <2>5, <2>6, <2>9 DEF Executing
      <3>2. row'[job'[v]] = row[job[v]] /\ job'[v] \notin stale'
        BY <1>a, <1>c, <2>1, <2>4, <3>1 DEF Sole, Mine
      <3>3. Mine(v) /\ pc'[v] = pc[v] /\ man'[v] = man[v] /\ verdict'[v] = verdict[v]
        BY <2>6, <2>9, <3>1 DEF Sole
      <3> QED BY <3>1, <3>2, <3>3 DEF Mine, Unheard, Ahead
    <2>10. Mine(w)'
      BY <2>4, <2>7 DEF Mine, Ahead
    <2>11. Moves
      BY <2>2, <2>4 DEF Moves, Ahead, Settled
    <2> QED BY <2>8, <2>9, <2>10, <2>11 DEF Sole
  <1>5. ASSUME NEW w \in Workers, Restart(w) PROVE Sole' /\ Moves
    <2>1. /\ UNCHANGED <<row, stale, job, prog, man, verdict>>
          /\ \A v \in Workers : Executing(v)' => Executing(v) /\ pc'[v] = pc[v]
      BY <1>5, <1>a DEF Restart, Goto, Executing, local
    <2> QED BY <1>b, <2>1, Standing DEF Sole, Mine
  <1>6. ASSUME NEW j \in Jobs, Stop(j) PROVE Sole' /\ Moves
    <2>1. /\ Stopped(row[j]).status = row[j].status /\ Stopped(row[j]).prog = row[j].prog
          /\ Stopped(row[j]).man = row[j].man /\ Stopped(row[j]).owner = row[j].owner
      BY <1>a DEF Stopped, Row
    <2>2. \A i \in Jobs : /\ row'[i].status = row[i].status /\ row'[i].prog = row[i].prog
                          /\ row'[i].man = row[i].man /\ row'[i].owner = row[i].owner
      BY <1>6, <1>a, <2>1 DEF Stop
    <2>3. UNCHANGED <<stale, pc, job, prog, man, verdict>>
      BY <1>6 DEF Stop, local
    <2>4. Sole'
      BY <1>a, <2>2, <2>3, Standing DEF Executing, Sole, Mine
    <2>5. Moves
      BY <2>2 DEF Moves, Ahead
    <2> QED BY <2>4, <2>5
  <1>7. ASSUME NEW j \in Jobs, Resume(j) PROVE Sole' /\ Moves
    <2>1. Restored(row[j]).status = "QUEUED" /\ Restored(row[j]).prog = row[j].prog
      BY <1>a DEF Restored, Row
    <2>2. /\ row'[j].status = "QUEUED" /\ row'[j].prog = row[j].prog
          /\ \A i \in Jobs \ {j} : row'[i] = row[i]
      BY <1>7, <1>a, <2>1 DEF Resume
    <2>3. UNCHANGED <<stale, pc, job, prog, man, verdict>>
      BY <1>7 DEF Resume, local
    <2>4. clicks' = clicks + 1
      BY <1>7 DEF Resume
    <2>5. \A v \in Workers : Executing(v) => job[v] # j
      BY <1>7 DEF Resume, Careful
    <2>6. \A v \in Workers : Executing(v) => row'[job[v]] = row[job[v]]
      BY <1>a, <2>2, <2>5
    <2>7. Sole'
      BY <1>a, <2>3, <2>6, Standing DEF Executing, Sole, Mine
    <2>8. clicks' > clicks
      BY <1>a, <2>4
    <2>9. Moves
      BY <2>2, <2>8 DEF Moves, Ahead
    <2> QED BY <2>7, <2>9
  <1>8. ASSUME NEW j \in Jobs, HeartbeatAges(j) PROVE Sole' /\ Moves
    <2>1. \A v \in Workers : Executing(v) => job[v] # j
      BY <1>8 DEF HeartbeatAges, Fault, Careful
    <2>2. UNCHANGED <<row, pc, job, prog, man, verdict>> /\ stale' = stale \cup {j}
      BY <1>8 DEF HeartbeatAges, local
    <2>3. Sole'
      BY <2>1, <2>2, Standing DEF Executing, Sole, Mine
    <2> QED BY <1>b, <2>2, <2>3
  <1>9. ASSUME NEW k \in Keys, Corrupt(k) \/ Lose(k) PROVE Sole' /\ Moves
    <2>1. UNCHANGED <<row, stale, pc, job, prog, man, verdict>>
      BY <1>9 DEF Corrupt, Lose, local
    <2> QED BY <1>b, <2>1, Standing DEF Executing, Sole, Mine
  <1>10. CASE UNCHANGED vars
    <2>1. UNCHANGED <<row, stale, pc, job, prog, man, verdict>>
      BY <1>10 DEF vars, local
    <2> QED BY <1>b, <2>1, Standing DEF Executing, Sole, Mine
  <1> QED BY <1>1, <1>2, <1>3, <1>d, <1>4, <1>5, <1>6, <1>7, <1>8, <1>9, <1>10 DEF Next

LEMMA AlwaysSole == ASSUME Careful PROVE Spec => [](Typed /\ Sole)
  <1>1. Init => Typed /\ Sole
    BY InitTyped, InitSole
  <1>2. Typed /\ Sole /\ [Next]_vars => (Typed /\ Sole)'
    BY StepTyped, SoleStep
  <1> QED BY <1>1, <1>2, PTL DEF Spec

\* As long as the failure detector is right and a job in a worker's hands is not resumed,
\* a job has one executor, whatever crashes, fails and is claimed again.
THEOREM OneExecutorHolds == Careful /\ Spec => []OneExecutor
  <1> SUFFICES ASSUME Careful PROVE Spec => []OneExecutor
    OBVIOUS
  <1>1. Spec => [](Typed /\ Sole)
    BY AlwaysSole
  <1>2. Typed /\ Sole => OneExecutor
    BY DEF Sole
  <1> QED BY <1>1, <1>2, PTL

\* Then no restart, recovery or resume loses a completed window ...
THEOREM ProgressHolds == Careful /\ Spec => ProgressIsKept
  <1> SUFFICES ASSUME Careful PROVE Spec => ProgressIsKept
    OBVIOUS
  <1>1. Spec => [](Typed /\ Sole)
    BY AlwaysSole
  <1>2. Typed /\ Sole /\ [Next]_vars =>
          [\A j \in Jobs, s \in Symbols : row[j].prog[s].done \subseteq row'[j].prog[s].done]_vars
    BY SoleStep DEF Moves, Ahead
  <1> QED BY <1>1, <1>2, PTL DEF Spec, ProgressIsKept

\* ... a settled job is left alone until it is resumed, but for the FAILED that the worker
\* itself writes over a verdict of which it lost the answer ...
THEOREM VerdictHolds == Careful /\ Spec => VerdictStands
  <1> SUFFICES ASSUME Careful PROVE Spec => VerdictStands
    OBVIOUS
  <1>1. Spec => [](Typed /\ Sole)
    BY AlwaysSole
  <1>2. Typed /\ Sole /\ [Next]_vars =>
          [\A j \in Jobs : row[j].status \in Settled /\ row'[j].status # row[j].status
              => \/ row'[j].status = "QUEUED" /\ clicks' > clicks
                 \/ /\ row'[j] = [row[j] EXCEPT !.status = "FAILED"]
                    /\ \E w \in Workers : Executing(w) /\ job[w] = j /\ verdict[w] = "FAILED"]_vars
    BY SoleStep DEF Moves, Demoted
  <1> QED BY <1>1, <1>2, PTL DEF Spec, VerdictStands

\* ... and a queued job leaves the queue only by being claimed.
THEOREM QueueHolds == Careful /\ Spec => QueuedIsClaimed
  <1> SUFFICES ASSUME Careful PROVE Spec => QueuedIsClaimed
    OBVIOUS
  <1>1. Spec => [](Typed /\ Sole)
    BY AlwaysSole
  <1>2. Typed /\ Sole /\ [Next]_vars =>
          [\A j \in Jobs : row[j].status = "QUEUED" /\ row'[j].status # "QUEUED"
              => row'[j].status = "RUNNING"]_vars
    BY SoleStep DEF Moves
  <1> QED BY <1>1, <1>2, PTL DEF Spec, QueuedIsClaimed

\* A Stop pressed on a job stays pending as long as a worker executes the job, unless
\* the user resumes it: the recovery, which forgets stops, only takes jobs of dead workers.
\* This needs the failure detector alone: a job may be resumed while a worker has it.
THEOREM StopHolds == "stall" \notin Faults /\ Spec => StopStands
  <1> SUFFICES ASSUME "stall" \notin Faults PROVE Spec => StopStands
    OBVIOUS
  <1>1. Init => Typed /\ Fresh
    BY InitTyped DEF Init, Fresh, Executing
  <1>2. Typed /\ Fresh /\ [Next]_vars => (Typed /\ Fresh)'
    BY StepTyped, FreshStep
  <1>3. Typed /\ Fresh /\ [Next]_vars =>
          [\A j \in Jobs : row[j].action = "STOP" /\ row'[j].action # "STOP"
              => \/ clicks' > clicks
                 \/ \A w \in Workers : Executing(w) => job[w] # j]_vars
    BY StopStep DEF Kept
  <1> QED BY <1>1, <1>2, <1>3, PTL DEF Spec, StopStands

\* A worker that has decided COMPLETED lists every window with data but those whose
\* HEAD failed then, and has a CSV of what it listed; so has every completed row. The
\* bucket keeps what it is given.
Exported(w) ==
  \/ pc[w] = "full" /\ Keys \subseteq man[w].chunks \cup man[w].missed \cup marked
  \/ /\ pc[w] = "finish" /\ man[w].full # {}
     /\ Keys \subseteq man[w].full \cup man[w].missed \cup marked
Whole ==
  /\ lost = {} /\ CompletedCsvIsWhole
  /\ \A w \in Workers : verdict[w] = "COMPLETED" => Exported(w)

LEMMA InitWhole == Init => Whole
  BY DEF Init, Whole, CompletedCsvIsWhole, NewJob

\* Nothing that was marked is unmarked.
LEMMA MarkedStays ==
  ASSUME "lose" \notin Faults, Whole, [Next]_vars
  PROVE  lost' = {} /\ marked \subseteq marked'
  <1>1. CASE UNCHANGED <<lost, marked>>
    BY <1>1 DEF Whole
  <1>2. ASSUME NEW w \in Workers, Work(w) \/ StoreError(w)
        PROVE  lost' = {} /\ marked \subseteq marked'
    <2>1. UNCHANGED bucket \/ \E k : Put(k) \/ PutMarker(k)
      BY <1>2 DEF Work, StoreError, bucket
    <2> QED BY <2>1 DEF Put, PutMarker, Whole, bucket
  <1>3. ASSUME NEW w \in Workers,
               Recover(w) \/ Claim(w) \/ ReportExport(w) \/ Crash(w) \/ Restart(w)
                 \/ GiveUp(w) \/ ClaimUnheard(w) \/ Begin(w) \/ StartSymbol(w) \/ NextWindow(w)
        PROVE  UNCHANGED <<lost, marked>>
    BY <1>3 DEF Recover, Claim, ReportExport, Crash, Restart, GiveUp, ClaimUnheard,
                Begin, StartSymbol, NextWindow, bucket
  <1>4. ASSUME NEW w \in Workers,
               Save(w) \/ EndSymbol(w) \/ Sync(w) \/ ExportFull(w) \/ ExportPartial(w) \/ Finish(w)
        PROVE  UNCHANGED <<lost, marked>>
    BY <1>4 DEF Save, EndSymbol, Sync, ExportFull, ExportPartial, Finish, bucket
  <1>5. ASSUME NEW j \in Jobs, Stop(j) \/ Resume(j) \/ HeartbeatAges(j)
        PROVE  UNCHANGED <<lost, marked>>
    BY <1>5 DEF Stop, Resume, HeartbeatAges, bucket
  <1>6. ASSUME NEW k \in Keys, Corrupt(k) PROVE UNCHANGED <<lost, marked>>
    BY <1>6 DEF Corrupt
  <1>7. \A k \in Keys : ~Lose(k)
    BY DEF Lose, Fault
  <1>8. CASE UNCHANGED vars
    BY <1>8, <1>1 DEF vars, bucket
  <1> QED
    BY <1>1, <1>2, <1>3, <1>4, <1>5, <1>6, <1>7, <1>8 DEF Next, Execute

\* With every symbol downloaded, what the sync would list is all that is stored.
LEMMA AllListed ==
  ASSUME Typed, Durable, lost = {}, NEW w \in Workers, Downloaded(prog[w]) = Symbols
  PROVE  Keys \subseteq SyncedChunks(prog[w]) \cup marked
  <1>1. prog[w] \in Progress /\ Backed(prog[w], Given) /\ stored \subseteq Keys
    BY DEF Typed, TypeOK, Durable
  <1>2. Keys \subseteq Given
    BY <1>1, BackedComplete
  <1>3. \A s \in Symbols : prog[w][s].done = Windows
    BY <1>1 DEF Backed, Downloaded
  <1>4. \A k \in stored : k \in SyncedChunks(prog[w])
    <2> SUFFICES ASSUME NEW k \in stored PROVE k[2] \in prog[w][k[1]].done
      BY DEF SyncedChunks
    <2>1. k[1] \in Symbols /\ k[2] \in Windows
      BY <1>1 DEF Keys
    <2> QED BY <1>3, <2>1
  <1> QED BY <1>2, <1>4 DEF Given, Present

LEMMA ExportedStays ==
  ASSUME Typed, NEW v \in Workers, Exported(v), marked \subseteq marked',
         pc'[v] = pc[v], man'[v] = man[v]
  PROVE  Exported(v)'
  BY DEF Exported

\* The verdict of the worker that steps.
LEMMA VerdictStep ==
  ASSUME Typed, Durable, Whole, NEW w \in Workers, marked \subseteq marked',
         \/ Execute(w) \/ ReportExport(w) \/ Claim(w) \/ Restart(w) \/ Crash(w) \/ Recover(w)
         \/ StoreError(w) \/ GiveUp(w) \/ ClaimUnheard(w),
         verdict'[w] = "COMPLETED"
  PROVE  Exported(w)'
  <1>a. /\ pc \in [Workers -> Phases] /\ verdict \in [Workers -> Settled]
        /\ man \in [Workers -> Manifest]
    BY DEF Typed, TypeOK
  <1>1. CASE Sync(w)
    <2>1. Downloaded(prog[w]) = Symbols /\ pc'[w] = "full" /\ UNCHANGED marked
      <3>1. verdict'[w] # "PAUSED" /\ ShortVerdict(prog[w]) # "COMPLETED"
        BY DEF ShortVerdict
      <3> QED BY <1>1, <1>a, <3>1 DEF Sync, Decide, Goto, bucket
    <2>2. man'[w].chunks \cup man'[w].missed = SyncedChunks(prog[w])
      <3>1. PICK hidden : man'[w] = Synced(man[w], SyncedChunks(prog[w]), hidden)
        BY <1>1, <1>a DEF Sync
      <3>2. /\ man'[w].chunks = SyncedChunks(prog[w]) \ hidden
            /\ man'[w].missed = SyncedChunks(prog[w]) \cap hidden
        BY <1>a, <3>1 DEF Synced, Manifest
      <3> QED BY <3>2
    <2> QED BY <2>1, <2>2, AllListed DEF Exported, Whole
  <1>2. CASE ExportFull(w)
    <2>1. verdict[w] = "COMPLETED" /\ UNCHANGED verdict
      BY <1>2, <1>a DEF ExportFull, Decide
    <2>2. /\ pc[w] = "full" /\ pc'[w] = "finish"
          /\ Keys \subseteq man[w].chunks \cup man[w].missed \cup marked
      BY <1>2, <1>a, <2>1 DEF Whole, Exported, ExportFull, Goto
    <2>3. /\ man[w].chunks # {}
          /\ \/ man'[w] = man[w] /\ man[w].full = man[w].chunks
             \/ man'[w] = FullExport(man[w], man[w].chunks)
      BY <1>2, <1>a, <2>1 DEF ExportFull, Decide
    <2>4. /\ FullExport(man[w], man[w].chunks).full = man[w].chunks
          /\ FullExport(man[w], man[w].chunks).missed = man[w].missed
      BY <1>a DEF FullExport, Manifest
    <2>5. man'[w].full = man[w].chunks /\ man'[w].missed = man[w].missed
      BY <2>3, <2>4
    <2> QED BY <2>2, <2>3, <2>5 DEF Exported
  <1>3. CASE ReportExport(w) \/ Recover(w) \/ ClaimUnheard(w)
    <2>1. UNCHANGED <<pc, man, verdict>>
      BY <1>3 DEF ReportExport, Recover, ClaimUnheard, local
    <2> QED BY <2>1, ExportedStays DEF Whole
  <1>4. CASE Finish(w) \/ Crash(w) \/ StoreError(w) \/ GiveUp(w)
    <2>1. verdict'[w] = "FAILED"
      BY <1>4, <1>a DEF Finish, Crash, StoreError, GiveUp, Forget, Decide
    <2> QED BY <2>1
  <1>5. CASE Begin(w) \/ StartSymbol(w) \/ NextWindow(w) \/ Work(w) \/ Save(w) \/ EndSymbol(w)
    <2>1. pc[w] \notin {"full", "finish"} /\ verdict[w] = "COMPLETED"
      BY <1>5, <1>a DEF Begin, StartSymbol, NextWindow, Work, Save, EndSymbol, Decide
    <2> QED BY <2>1 DEF Whole, Exported
  <1>6. CASE ExportPartial(w) \/ Claim(w) \/ Restart(w)
    <2>1. pc[w] \notin {"full", "finish"} /\ verdict[w] = "COMPLETED"
      BY <1>6, <1>a DEF ExportPartial, Claim, Restart, local
    <2> QED BY <2>1 DEF Whole, Exported
  <1> QED BY <1>1, <1>2, <1>3, <1>4, <1>5, <1>6 DEF Execute

\* The other workers keep theirs.
LEMMA OthersExported ==
  ASSUME Typed, Whole, NEW w \in Workers, marked \subseteq marked',
         \/ Execute(w) \/ ReportExport(w) \/ Claim(w) \/ Restart(w) \/ Crash(w) \/ Recover(w)
         \/ StoreError(w) \/ GiveUp(w) \/ ClaimUnheard(w),
         NEW v \in Workers, v # w, verdict'[v] = "COMPLETED"
  PROVE  Exported(v)'
  BY OthersKeep, ExportedStays DEF Whole

\* A row that shows COMPLETED after a step did so before, with the same manifest,
\* or has just been given the CSV.
CsvOf(j) ==
  /\ row'[j].man.full # {}
  /\ Keys \subseteq row'[j].man.full \cup row'[j].man.missed \cup marked'
RowStands(j) ==
  row'[j].status = "COMPLETED" =>
    (row[j].status = "COMPLETED" /\ row'[j].man = row[j].man) \/ CsvOf(j)

LEMMA RowsStand ==
  ASSUME Typed, Sole, Whole, [Next]_vars, marked \subseteq marked'
  PROVE  \A j \in Jobs : RowStands(j)
  <1>a. row \in [Jobs -> Row] /\ \A w \in Workers : job[w] \in Jobs
    BY DEF Typed, TypeOK
  <1>b. ASSUME UNCHANGED row PROVE \A j \in Jobs : RowStands(j)
    BY <1>b DEF RowStands
  <1>1. ASSUME NEW w \in Workers, Execute(w) \/ ReportExport(w), ~Finish(w)
        PROVE  \A j \in Jobs : RowStands(j)
    <2>1. /\ \A j \in Jobs \ {job[w]} : row'[j] = row[j]
          /\ row'[job[w]].status = "RUNNING"
      BY <1>1, Executes DEF Aside, GoesOn, Sole, Mine, Unheard
    <2> QED BY <2>1 DEF RowStands
  <1>c. ASSUME NEW w \in Workers, WriteVerdict(w), pc[w] = "finish"
        PROVE  \A j \in Jobs : RowStands(j)
    <2>1. /\ row'[job[w]].status = verdict[w] /\ row'[job[w]].man = man[w]
          /\ \A j \in Jobs \ {job[w]} : row'[j] = row[j]
      BY <1>c, VerdictFacts
    <2>2. verdict[w] = "COMPLETED" =>
            man[w].full # {} /\ Keys \subseteq man[w].full \cup man[w].missed \cup marked
      BY <1>c DEF Whole, Exported
    <2> QED BY <2>1, <2>2 DEF RowStands, CsvOf
  <1>2. ASSUME NEW w \in Workers, Finish(w) \/ StoreError(w)
        PROVE  \A j \in Jobs : RowStands(j)
    <2>1. UNCHANGED row \/ (WriteVerdict(w) /\ pc[w] = "finish")
      BY <1>2 DEF Finish, StoreError
    <2> QED BY <1>b, <1>c, <2>1
  <1>3. ASSUME NEW w \in Workers, GiveUp(w) PROVE \A j \in Jobs : RowStands(j)
    <2> DEFINE r == Finished(row[job[w]], "FAILED", row[job[w]].prog, row[job[w]].man)
    <2>1. r.status = "FAILED"
      BY <1>a DEF Finished, Row
    <2>2. UNCHANGED row \/ row' = [row EXCEPT ![job[w]] = r]
      BY <1>3 DEF GiveUp
    <2> HIDE DEF r
    <2>3. CASE row' = [row EXCEPT ![job[w]] = r]
      <3>1. /\ \A j \in Jobs \ {job[w]} : row'[j] = row[j]
            /\ row'[job[w]].status = "FAILED"
        BY <1>a, <2>1, <2>3
      <3> QED BY <3>1 DEF RowStands
    <2> QED BY <1>b, <2>2, <2>3
  <1>4. ASSUME NEW w \in Workers, Recover(w) PROVE \A j \in Jobs : RowStands(j)
    <2>1. \A j \in Jobs : Requeued(row[j]).status = "QUEUED"
      BY <1>a DEF Requeued, Row
    <2>2. \A j \in Jobs : row'[j] = row[j] \/ row'[j] = Requeued(row[j])
      BY <1>4 DEF Recover
    <2> QED BY <2>1, <2>2 DEF RowStands
  <1>5. ASSUME NEW w \in Workers, Claim(w) \/ ClaimUnheard(w)
        PROVE  \A j \in Jobs : RowStands(j)
    <2>1. PICK i \in Claimable : row' = [row EXCEPT ![i] = Claimed(@, w)]
      BY <1>5 DEF Claim, ClaimUnheard, TakeRow
    <2>2. i \in Jobs /\ Claimed(row[i], w).status = "RUNNING"
      BY <1>a DEF Claimable, Claimed, Row
    <2>3. /\ \A j \in Jobs \ {i} : row'[j] = row[j]
          /\ row'[i].status = "RUNNING"
      BY <1>a, <2>1, <2>2
    <2> QED BY <2>3 DEF RowStands
  <1>6. ASSUME NEW i \in Jobs, Stop(i) PROVE \A j \in Jobs : RowStands(j)
    <2>1. Stopped(row[i]).status = row[i].status /\ Stopped(row[i]).man = row[i].man
      BY <1>a DEF Stopped, Row
    <2>2. \A j \in Jobs : row'[j].status = row[j].status /\ row'[j].man = row[j].man
      BY <1>a, <1>6, <2>1 DEF Stop
    <2> QED BY <2>2 DEF RowStands
  <1>7. ASSUME NEW i \in Jobs, Resume(i) PROVE \A j \in Jobs : RowStands(j)
    <2>1. Restored(row[i]).status = "QUEUED"
      BY <1>a DEF Restored, Row
    <2>2. /\ \A j \in Jobs \ {i} : row'[j] = row[j]
          /\ row'[i].status = "QUEUED"
      BY <1>a, <1>7, <2>1 DEF Resume
    <2> QED BY <2>2 DEF RowStands
  <1>8. ASSUME NEW w \in Workers, Crash(w) \/ Restart(w) PROVE UNCHANGED row
    BY <1>8 DEF Crash, Restart
  <1>9. ASSUME NEW j \in Jobs, NEW k \in Keys, HeartbeatAges(j) \/ Corrupt(k) \/ Lose(k)
        PROVE  UNCHANGED row
    BY <1>9 DEF HeartbeatAges, Corrupt, Lose
  <1>10. (UNCHANGED vars) => UNCHANGED row
    BY DEF vars
  <1>11. 1 \in Jobs /\ <<1, 1>> \in Keys
    BY ConstantsOK DEF Jobs, Keys, Symbols, Windows
  <1> QED
    BY <1>b, <1>1, <1>2, <1>3, <1>4, <1>5, <1>6, <1>7, <1>8, <1>9, <1>10, <1>11
    DEF Next, Execute

LEMMA WholeStep ==
  ASSUME "lose" \notin Faults, Typed, Durable, Sole, Whole, [Next]_vars
  PROVE  Whole'
  <1>1. lost' = {} /\ marked \subseteq marked'
    BY MarkedStays
  <1>2. CompletedCsvIsWhole'
    <2>1. ASSUME NEW j \in Jobs, row'[j].status = "COMPLETED"
          PROVE  /\ row'[j].man.full # {}
                 /\ Keys \subseteq row'[j].man.full \cup row'[j].man.missed \cup marked'
      <3>1. CASE CsvOf(j)
        BY <3>1 DEF CsvOf
      <3>2. CASE row[j].status = "COMPLETED" /\ row'[j].man = row[j].man
        BY <1>1, <3>2 DEF Whole, CompletedCsvIsWhole
      <3> QED BY <1>1, <2>1, <3>1, <3>2, RowsStand DEF RowStands
    <2> QED BY <1>1, <2>1 DEF CompletedCsvIsWhole
  <1>3. ASSUME NEW v \in Workers, verdict'[v] = "COMPLETED" PROVE Exported(v)'
    <2>1. CASE \E w \in Workers :
                 \/ Execute(w) \/ ReportExport(w) \/ Claim(w) \/ Restart(w) \/ Crash(w)
                 \/ Recover(w) \/ StoreError(w) \/ GiveUp(w) \/ ClaimUnheard(w)
      BY <1>1, <1>3, <2>1, VerdictStep, OthersExported
    <2>2. CASE UNCHANGED <<pc, man, verdict>>
      BY <1>1, <1>3, <2>2, ExportedStays DEF Whole
    <2>3. ASSUME NEW j \in Jobs, NEW k \in Keys,
                 Stop(j) \/ Resume(j) \/ HeartbeatAges(j) \/ Corrupt(k) \/ Lose(k)
          PROVE  UNCHANGED <<pc, man, verdict>>
      BY <2>3 DEF Stop, Resume, HeartbeatAges, Corrupt, Lose, local
    <2>4. (UNCHANGED vars) => UNCHANGED <<pc, man, verdict>>
      BY DEF vars, local
    <2>5. 1 \in Jobs /\ <<1, 1>> \in Keys
      BY ConstantsOK DEF Jobs, Keys, Symbols, Windows
    <2> QED BY <2>1, <2>2, <2>3, <2>4, <2>5 DEF Next
  <1> QED BY <1>1, <1>2, <1>3 DEF Whole

\* If besides the bucket loses nothing, a COMPLETED job offers a CSV of every window that
\* has data but those whose HEAD failed when this CSV's chunks were listed: also after
\* corrupt objects, failed HEADs before that, failed exports, stops and reused exports.
THEOREM CsvHolds == Careful /\ "lose" \notin Faults /\ Spec => []CompletedCsvIsWhole
  <1> SUFFICES ASSUME Careful, "lose" \notin Faults PROVE Spec => []CompletedCsvIsWhole
    OBVIOUS
  <1>1. Spec => [](Typed /\ Sole)
    BY AlwaysSole
  <1>2. Init => Whole
    BY InitWhole
  <1>3. Typed /\ Durable /\ Sole /\ Whole /\ [Next]_vars => Whole'
    BY WholeStep
  <1>4. Whole => CompletedCsvIsWhole
    BY DEF Whole
  <1> QED BY <1>1, <1>2, <1>3, <1>4, AlwaysDurable, PTL DEF Spec
=============================================================================
