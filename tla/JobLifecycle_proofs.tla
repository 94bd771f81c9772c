------------------------ MODULE JobLifecycle_proofs ------------------------
(***************************************************************************)
(* JobRunner implements JobLifecycle, for every value of its constants;    *)
(* and what its rows say when storage does not fail.                       *)
(*                                                                         *)
(* A step of JobRunner that leaves the tables alone is a stutter; one that *)
(* inserts, deletes or updates rows is a step of the lifecycle, provided   *)
(* the thread that makes it knows where its job stands. LifeInv says so:   *)
(* until the final update the row is absent or still "running", and it is  *)
(* behind the Job object of the thread by at most one waypoint.            *)
(***************************************************************************)
EXTENDS JobRunner_proofs

\* The outcome of j is not stored yet.
Unsettled(j) == pc[j] \in LoopSteps \cup {"release", "resetstop", "final"}

LifeJob(j) ==
  /\ born[j] = 0 => rowState[j] = "absent"
  /\ rowState[j] = "absent" => rowLast[j] = 0
  /\ pc[j] = "none" =>
       rowState[j] \in {"absent", "created", "running"} /\ rowLast[j] = 0 /\ jobLast[j] = 0
  /\ Driving(j) => jobLast[j] = Counted(j)
  /\ Unsettled(j) => rowState[j] \in {"absent", "running"}
  /\ Unsettled(j) /\ rowState[j] = "running" =>
       IF pc[j] = "progress" THEN jobLast[j] = rowLast[j] + 1
       ELSE IF Driving(j) THEN jobLast[j] = rowLast[j]
       ELSE jobLast[j] \in {rowLast[j], rowLast[j] + 1}
  /\ Unsettled(j) /\ ~Driving(j) =>
       /\ jobState[j] \in Terminal
       /\ jobState[j] = "completed" => jobLast[j] = PathLen
       /\ jobState[j] = "stopped" => jobLast[j] < PathLen

\* Once run_job stored "running" and until it starts the thread, nobody else
\* writes the row, except to delete it.
LifeRequest ==
  \A c \in Clients : reqPc[c] = "spawn" => rowState[reqJob[c]] \in {"absent", "running"}

\* A deletion that is not committed yet is of a row that is there.
PrunedInv == \A j \in pruned : rowState[j] # "absent"

LifeInv == (\A j \in Jobs : LifeJob(j)) /\ LifeRequest /\ PrunedInv

-----------------------------------------------------------------------------
(* LifeInv is inductive.                                                   *)

\* The row of k is left alone, or deleted.
RowKeptOrDeleted(k) ==
  \/ rowState'[k] = rowState[k] /\ rowLast'[k] = rowLast[k]
  \/ rowState[k] # "absent" /\ rowState'[k] = "absent" /\ rowLast'[k] = 0

LEMMA DeleteRowsKeepsOrDeletes ==
  ASSUME NEW S, DeleteRows(S), NEW k \in Jobs, LifeJob(k)
  PROVE  RowKeptOrDeleted(k)
BY DEF DeleteRows, Commit, RowKeptOrDeleted, LifeJob

LEMMA LifeFrame ==
  ASSUME NEW k \in Jobs, LifeJob(k), RowKeptOrDeleted(k), born'[k] = born[k],
         pc'[k] = pc[k], index'[k] = index[k], jobState'[k] = jobState[k],
         jobLast'[k] = jobLast[k]
  PROVE  LifeJob(k)'
BY DEF LifeJob, RowKeptOrDeleted, Counted, Driving, Unsettled

\* The thread of j writes nothing of another job k, except that it may prune it.
LEMMA WorkerKeepsOthers ==
  ASSUME TypeInv, NEW j \in Jobs, Worker(j) \/ WorkerPublish(j),
         NEW k \in Jobs \ {j}, LifeJob(k)
  PROVE  RowKeptOrDeleted(k) /\ jobLast'[k] = jobLast[k]
<1>1. /\ jobLast \in [Jobs -> 0..PathLen] /\ rowLast \in [Jobs -> 0..PathLen]
      /\ rowState \in [Jobs -> States \cup {"absent"}]
  BY DEF TypeInv, TypeOK
<1> USE <1>1 DEF RowKeptOrDeleted, LifeJob, UpdateRow, Commit, FailWrite, store, rows, thread
<1>2. CASE CheckStop(j)
  BY <1>2 DEF CheckStop
<1>3. CASE MoveArm(j)
  BY <1>3 DEF MoveArm
<1>4. CASE AwaitArrival(j)
  BY <1>4 DEF AwaitArrival
<1>5. CASE ScanWaypoint(j)
  BY <1>5 DEF ScanWaypoint
<1>6. CASE SaveMeasurement(j)
  BY <1>6 DEF SaveMeasurement
<1>7. CASE PersistProgress(j)
  BY <1>7 DEF PersistProgress
<1>8. CASE ReturnMove(j)
  BY <1>8 DEF ReturnMove
<1>9. CASE AwaitReturn(j)
  BY <1>9 DEF AwaitReturn
<1>10. CASE ReleaseSlot(j)
  BY <1>10 DEF ReleaseSlot
<1>11. CASE ResetStop(j)
  BY <1>11 DEF ResetStop
<1>12. CASE PersistFinal(j)
  BY <1>12 DEF PersistFinal
<1>13. CASE PruneCount(j)
  BY <1>13 DEF PruneCount
<1>14. CASE PruneSelect(j)
  BY <1>14 DEF PruneSelect
<1>15. CASE PruneDelete(j)
  BY <1>15 DEF PruneDelete
<1>16. CASE PruneCommit(j)
  BY <1>16 DEF PruneCommit
<1>17. CASE PruneAtomically(j)
  BY <1>17, DeleteRowsKeepsOrDeletes DEF PruneAtomically
<1>18. CASE PublishWaypointStarted(j)
  BY <1>18 DEF PublishWaypointStarted
<1>19. CASE PublishWaypointCompleted(j)
  BY <1>19 DEF PublishWaypointCompleted
<1>20. CASE PublishTerminal(j)
  BY <1>20 DEF PublishTerminal
<1> QED
  BY <1>2, <1>3, <1>4, <1>5, <1>6, <1>7, <1>8, <1>9, <1>10, <1>11, <1>12, <1>13, <1>14, <1>15,
     <1>16, <1>17, <1>18, <1>19, <1>20 DEF Worker, WorkerPublish

LEMMA LifeWorker ==
  ASSUME TypeInv, NEW j \in Jobs, MeasuredJob(j), LifeJob(j), Worker(j) \/ WorkerPublish(j)
  PROVE  LifeJob(j)'
<1>1. /\ pc \in [Jobs -> PcSteps] /\ index \in [Jobs -> 0..PathLen]
      /\ jobState \in [Jobs -> States]
      /\ rowState \in [Jobs -> States \cup {"absent"}]
      /\ rowLast \in [Jobs -> 0..PathLen] /\ jobLast \in [Jobs -> 0..PathLen]
      /\ PathLen \in Nat \ {0}
      /\ pc[j] \in BodySteps => index[j] < PathLen
      /\ pc[j] \in {"return", "returning"} => index[j] = PathLen
      /\ Driving(j) => jobState[j] = "running"
  BY JobRunnerAssumption DEF TypeInv, TypeOK, IndexInBody, MeasuredJob
<1>2. born' = born
  BY WorkerAndSlot
<1> USE <1>1, <1>2 DEF LifeJob, Counted, Driving, Unsettled, BodySteps, LoopSteps, Terminal, Go, Fail,
            Commit, FailWrite, store, rows, thread
<1>3. CASE CheckStop(j)
  BY <1>3 DEF CheckStop
<1>4. CASE MoveArm(j)
  BY <1>4 DEF MoveArm
<1>5. CASE AwaitArrival(j)
  BY <1>5 DEF AwaitArrival
<1>6. CASE ScanWaypoint(j)
  BY <1>6 DEF ScanWaypoint
<1>7. CASE SaveMeasurement(j)
  BY <1>7 DEF SaveMeasurement
<1>8. CASE PersistProgress(j)
  BY <1>8 DEF PersistProgress, UpdateRow, Present
<1>9. CASE ReturnMove(j)
  BY <1>9 DEF ReturnMove
<1>10. CASE AwaitReturn(j)
  BY <1>10 DEF AwaitReturn
<1>11. CASE ReleaseSlot(j)
  BY <1>11 DEF ReleaseSlot
<1>12. CASE ResetStop(j)
  BY <1>12 DEF ResetStop
<1>13. CASE PersistFinal(j)
  BY <1>13 DEF PersistFinal, UpdateRow, Present
<1>14. CASE PruneCount(j)
  BY <1>14 DEF PruneCount
<1>15. CASE PruneSelect(j)
  BY <1>15 DEF PruneSelect
<1>16. CASE PruneDelete(j)
  BY <1>16 DEF PruneDelete
<1>17. CASE PruneCommit(j)
  BY <1>17 DEF PruneCommit
<1>18. CASE PruneAtomically(j)
  BY <1>18 DEF PruneAtomically, DeleteRows
<1>19. CASE PublishWaypointStarted(j)
  BY <1>19 DEF PublishWaypointStarted
<1>20. CASE PublishWaypointCompleted(j)
  BY <1>20 DEF PublishWaypointCompleted
<1>21. CASE PublishTerminal(j)
  BY <1>21 DEF PublishTerminal
<1> QED
  BY <1>3, <1>4, <1>5, <1>6, <1>7, <1>8, <1>9, <1>10, <1>11, <1>12, <1>13, <1>14, <1>15, <1>16,
     <1>17, <1>18, <1>19, <1>20, <1>21 DEF Worker, WorkerPublish

LEMMA LifeStepRequest ==
  ASSUME TypeInv, RequestOwnsJob, MeasuredInv, LifeInv,
         NEW c \in Clients, Request(c) \/ PublishStarted(c)
  PROVE  (\A j \in Jobs : LifeJob(j)') /\ LifeRequest'
<1>1. /\ pc \in [Jobs -> PcSteps] /\ jobState \in [Jobs -> States]
      /\ rowState \in [Jobs -> States \cup {"absent"}]
      /\ rowLast \in [Jobs -> 0..PathLen]
      /\ reqPc \in [Clients -> ReqSteps]
      /\ PathLen \in Nat \ {0}
      /\ \A j \in Jobs : LifeJob(j)
  BY JobRunnerAssumption DEF TypeInv, TypeOK, LifeInv
<1>2. /\ reqPc[c] # "idle" => reqJob[c] \in Jobs /\ born[reqJob[c]] # 0
      /\ reqPc[c] \notin {"idle", "publish"} => pc[reqJob[c]] = "none"
      /\ \A d \in Clients : reqPc[d] # "idle" => reqJob[d] \in Jobs
      /\ \A d \in Clients \ {c} : reqPc[c] # "idle" /\ reqPc[d] # "idle" => reqJob[c] # reqJob[d]
      /\ \A j \in Jobs : pc[j] = "none" => index[j] = 0
  BY DEF RequestOwnsJob, MeasuredInv, MeasuredJob
<1>3. CASE PersistRunning(c)
  <2>1. LifeRequest'
    <3> SUFFICES ASSUME NEW d \in Clients, reqPc'[d] = "spawn"
                 PROVE  rowState'[reqJob'[d]] \in {"absent", "running"}
      BY DEF LifeRequest
    <3>1. reqJob' = reqJob /\ reqPc[c] = "persist" /\ reqJob[c] \in Jobs
      BY <1>2, <1>3 DEF PersistRunning, GoReq
    <3>2. CASE d = c
      BY <1>1, <1>3, <3>1, <3>2 DEF PersistRunning, GoReq, UpdateRow, Commit, Present
    <3>3. CASE d # c
      <4>1. reqPc[d] = "spawn"
        BY <1>1, <1>3, <3>3 DEF PersistRunning, GoReq
      <4>2. reqJob[d] # reqJob[c] /\ reqJob[d] \in Jobs /\ rowState[reqJob[d]] \in {"absent", "running"}
        BY <1>2, <3>1, <3>3, <4>1 DEF LifeInv, LifeRequest
      <4> QED
        BY <1>1, <1>3, <3>1, <3>3, <4>1, <4>2
           DEF PersistRunning, GoReq, UpdateRow, Commit, FailWrite, rows
    <3> QED
      BY <3>2, <3>3
  <2>2. ASSUME NEW j \in Jobs PROVE LifeJob(j)'
    BY <1>1, <1>2, <1>3 DEF LifeJob, PersistRunning, GoReq, UpdateRow, Commit, FailWrite,
       Present, Counted, Driving, Unsettled, LoopSteps, rows, thread
  <2> QED
    BY <2>1, <2>2
<1>4. CASE SpawnWorker(c)
  <2>1. LifeRequest'
    BY <1>1, <1>4 DEF LifeInv, LifeRequest, SpawnWorker, GoReq, store, rows
  <2>2. ASSUME NEW j \in Jobs PROVE LifeJob(j)'
    BY <1>1, <1>2, <1>4 DEF LifeInv, LifeJob, LifeRequest, SpawnWorker, GoReq, Counted,
       Driving, Unsettled, LoopSteps, store, rows
  <2> QED
    BY <2>1, <2>2
<1>5. CASE SaveJobImage(c) \/ LookupJob(c) \/ CheckSlot(c) \/ ClearStop(c) \/ ClaimSlot(c)
             \/ PublishStarted(c)
  <2>1. ASSUME NEW j \in Jobs PROVE RowKeptOrDeleted(j)
    BY <1>1, <1>5 DEF LifeJob, RowKeptOrDeleted, SaveJobImage, LookupJob, CheckSlot, ClearStop,
       ClaimSlot, PublishStarted, Commit, FailWrite, store, rows
  <2>2. /\ UNCHANGED <<born, thread>> /\ reqJob' = reqJob
        /\ \A d \in Clients : reqPc'[d] = "spawn" => reqPc[d] = "spawn"
    BY <1>1, <1>5 DEF SaveJobImage, LookupJob, CheckSlot, ClearStop, ClaimSlot, PublishStarted,
       GoReq, FailWrite, store
  <2>3. LifeRequest'
    BY <1>2, <2>1, <2>2 DEF LifeInv, LifeRequest, RowKeptOrDeleted
  <2>4. ASSUME NEW j \in Jobs PROVE LifeJob(j)'
    BY <1>1, <2>1, <2>2, LifeFrame DEF thread
  <2> QED
    BY <2>3, <2>4
<1> QED
  BY <1>3, <1>4, <1>5 DEF Request

\* Only prune_jobs opens a deletion, and only of rows that it finds.
LEMMA PrunedStep ==
  ASSUME TypeInv, PrunedInv, [Next]_vars
  PROVE  PrunedInv'
<1>1. ASSUME pruned' = {} PROVE PrunedInv'
  BY <1>1 DEF PrunedInv
<1>2. ASSUME pruned' \subseteq pruned, rowState' = rowState PROVE PrunedInv'
  BY <1>2 DEF PrunedInv
<1> USE <1>1, <1>2 DEF UpdateRow, DeleteRows, Commit, FailWrite, store, rows
<1>3. ASSUME NEW j \in Jobs, Worker(j) \/ WorkerPublish(j) PROVE PrunedInv'
  <2>1. CASE PruneDelete(j)
    <3>1. CASE pruned' = pruned \cup (victims[j] \cap Present) /\ rowState' = rowState
      BY <3>1 DEF PrunedInv, Present
    <3> QED
      BY <2>1, <3>1 DEF PruneDelete
  <2>2. CASE \/ CheckStop(j) \/ MoveArm(j) \/ AwaitArrival(j) \/ ScanWaypoint(j)
             \/ ReturnMove(j) \/ AwaitReturn(j) \/ ReleaseSlot(j) \/ ResetStop(j)
             \/ PruneCount(j) \/ PruneSelect(j) \/ WorkerPublish(j)
    BY <2>2 DEF CheckStop, MoveArm, AwaitArrival, ScanWaypoint, ReturnMove, AwaitReturn,
       ReleaseSlot, ResetStop, PruneCount, PruneSelect, WorkerPublish, PublishWaypointStarted,
       PublishWaypointCompleted, PublishTerminal
  <2>3. CASE SaveMeasurement(j)
    BY <2>3 DEF SaveMeasurement
  <2>4. CASE PersistProgress(j) \/ PersistFinal(j) \/ PruneCommit(j) \/ PruneAtomically(j)
    BY <2>4 DEF PersistProgress, PersistFinal, PruneCommit, PruneAtomically
  <2> QED
    BY <1>3, <2>1, <2>2, <2>3, <2>4 DEF Worker
<1>4. ASSUME NEW c \in Clients, Request(c) \/ PublishStarted(c) PROVE PrunedInv'
  BY <1>4 DEF Request, SaveJobImage, LookupJob, CheckSlot, ClearStop, ClaimSlot, PersistRunning,
     SpawnWorker, PublishStarted
<1>5. ASSUME NEW c \in Clients, NEW j \in Jobs, SubmitJob(c, j) PROVE PrunedInv'
  BY <1>5 DEF SubmitJob
<1>6. CASE Crash
  BY <1>6 DEF Crash
<1>7. ASSUME NEW j \in Jobs, DeleteJob(j) PROVE PrunedInv'
  BY <1>7 DEF DeleteJob
<1>8. CASE ManualMove \/ Quiescent \/ UNCHANGED vars
  BY <1>8 DEF ManualMove, Quiescent, vars
<1>9. ASSUME NEW s \in Stoppers, StopCheck(s) \/ StopCall(s) PROVE PrunedInv'
  BY <1>9 DEF StopCheck, StopCall, StopFlag, StopRobot
<1> QED
  BY <1>3, <1>4, <1>5, <1>6, <1>7, <1>8, <1>9 DEF Next, Outside

LEMMA LifeStep ==
  TypeInv /\ RequestOwnsJob /\ MeasuredInv /\ LifeInv /\ [Next]_vars => LifeInv'
<1> SUFFICES ASSUME TypeInv, RequestOwnsJob, MeasuredInv, LifeInv, [Next]_vars
             PROVE  (\A k \in Jobs : LifeJob(k)') /\ LifeRequest'
  BY PrunedStep DEF LifeInv
<1>1. /\ rowState \in [Jobs -> States \cup {"absent"}] /\ rowLast \in [Jobs -> 0..PathLen]
      /\ reqPc \in [Clients -> ReqSteps] /\ reqJob \in [Clients -> Jobs \cup {NoJob}]
      /\ born \in [Jobs -> Nat]
      /\ \A c \in Clients : reqPc[c] # "idle" => reqJob[c] \in Jobs
      /\ \A c \in Clients : reqPc[c] = "spawn" => pc[reqJob[c]] = "none"
      /\ \A k \in Jobs : LifeJob(k)
  BY DEF TypeInv, TypeOK, RequestOwnsJob, LifeInv
\* A request about to start its thread does not notice a deletion.
<1>2. ASSUME \A k \in Jobs : RowKeptOrDeleted(k), UNCHANGED request
      PROVE  LifeRequest'
  BY <1>1, <1>2 DEF LifeInv, LifeRequest, RowKeptOrDeleted, request
<1>3. ASSUME NEW j \in Jobs, Worker(j) \/ WorkerPublish(j)
      PROVE  (\A k \in Jobs : LifeJob(k)') /\ LifeRequest'
  <2>1. \A k \in Jobs \ {j} : RowKeptOrDeleted(k) /\ jobLast'[k] = jobLast[k]
    BY <1>1, <1>3, WorkerKeepsOthers
  <2>2. \A k \in Jobs \ {j} : pc'[k] = pc[k] /\ index'[k] = index[k] /\ jobState'[k] = jobState[k]
    BY <1>3, WorkerFrame
  <2>3. ASSUME NEW k \in Jobs \ {j} PROVE LifeJob(k)'
    BY <1>1, <1>3, <2>1, <2>2, LifeFrame, WorkerAndSlot
  <2>4. LifeJob(j)'
    BY <1>1, <1>3, LifeWorker DEF MeasuredInv
  <2>5. UNCHANGED request /\ pc[j] # "none"
    BY <1>3, WorkerAndSlot DEF request
  <2>6. LifeRequest'
    BY <1>1, <2>1, <2>5 DEF LifeInv, LifeRequest, RowKeptOrDeleted, request
  <2> QED
    BY <2>3, <2>4, <2>6
<1>4. ASSUME NEW c \in Clients, NEW j \in Jobs, SubmitJob(c, j)
      PROVE  (\A k \in Jobs : LifeJob(k)') /\ LifeRequest'
  <2>1. born'[j] # 0 /\ \A k \in Jobs \ {j} : born'[k] = born[k]
    BY <1>1, <1>4, RankIsPositive DEF SubmitJob
  <2>2. /\ rowState'[j] \in {"absent", "created"} /\ rowLast'[j] = 0 /\ UNCHANGED thread
        /\ born[j] = 0 /\ pc[j] = "none"
    BY <1>1, <1>4 DEF SubmitJob, Commit, RequestOwnsJob, LifeJob
  <2>3. LifeJob(j)'
    BY <1>1, <2>1, <2>2 DEF LifeJob, Driving, Unsettled, LoopSteps, thread
  <2>4. \A k \in Jobs \ {j} : RowKeptOrDeleted(k)
    BY <1>1, <1>4 DEF SubmitJob, Commit, RowKeptOrDeleted, LifeJob
  <2>5. ASSUME NEW k \in Jobs \ {j} PROVE LifeJob(k)'
    BY <1>1, <2>1, <2>2, <2>4, LifeFrame DEF thread
  <2>6. LifeRequest'
    <3> SUFFICES ASSUME NEW d \in Clients, reqPc'[d] = "spawn"
                 PROVE  rowState'[reqJob'[d]] \in {"absent", "running"}
      BY DEF LifeRequest
    <3>1. d # c /\ reqPc[d] = "spawn" /\ reqJob'[d] = reqJob[d]
      BY <1>1, <1>4 DEF SubmitJob, GoReq
    <3>2. reqJob[d] \in Jobs \ {j}
      BY <1>1, <2>2, <3>1 DEF RequestOwnsJob
    <3> QED
      BY <2>4, <3>1, <3>2 DEF LifeInv, LifeRequest, RowKeptOrDeleted
  <2> QED
    BY <2>3, <2>5, <2>6
<1>5. CASE Crash
  <2>1. \A k \in Jobs : RowKeptOrDeleted(k)
    BY <1>1, <1>5, DeleteRowsKeepsOrDeletes DEF Crash, RowKeptOrDeleted, rows
  <2>2. LifeRequest'
    BY <1>5 DEF Crash, LifeRequest
  <2>3. ASSUME NEW k \in Jobs PROVE LifeJob(k)'
    BY <1>1, <1>5, <2>1 DEF Crash, RowKeptOrDeleted, DeleteRows, LifeJob, Driving, Unsettled,
                            LoopSteps
  <2> QED
    BY <2>2, <2>3
<1>6. ASSUME NEW j \in Jobs, DeleteJob(j)
      PROVE  (\A k \in Jobs : LifeJob(k)') /\ LifeRequest'
  <2>1. \A k \in Jobs : RowKeptOrDeleted(k)
    BY <1>1, <1>6, DeleteRowsKeepsOrDeletes DEF DeleteJob
  <2>2. LifeRequest'
    BY <1>2, <1>6, <2>1 DEF DeleteJob
  <2>3. ASSUME NEW k \in Jobs PROVE LifeJob(k)'
    BY <1>1, <1>6, <2>1, LifeFrame DEF DeleteJob, DeleteRows, thread
  <2> QED
    BY <2>2, <2>3
<1>7. CASE ManualMove \/ Quiescent \/ UNCHANGED vars
  BY <1>1, <1>7, LifeFrame DEF ManualMove, Quiescent, vars, LifeInv, LifeRequest,
     RowKeptOrDeleted,
                               store, rows, request, thread
<1>8. ASSUME NEW s \in Stoppers, StopCheck(s) \/ StopCall(s)
      PROVE  (\A k \in Jobs : LifeJob(k)') /\ LifeRequest'
  BY <1>1, <1>8, LifeFrame DEF StopCheck, StopCall, StopFlag, StopRobot, LifeInv, LifeRequest,
                               RowKeptOrDeleted, store, rows, request, thread
<1> QED
  BY <1>1, <1>3, <1>4, <1>5, <1>6, <1>7, <1>8, LifeStepRequest DEF Next, Outside

-----------------------------------------------------------------------------
(* Every step is a step of the lifecycle, or a stutter.                    *)

LifecycleStep == [Lifecycle!Next]_(Lifecycle!vars)

\* What JobLifecycle reads as phase.
Phase == [j \in Jobs |-> IF rowState[j] # "absent" THEN rowState[j]
                         ELSE IF born[j] = 0 THEN "new" ELSE "deleted"]

LEMMA StoreStutter == UNCHANGED store => LifecycleStep
BY DEF LifecycleStep, Lifecycle!vars, store, rows

\* What JobLifecycle's Commit says of these columns.
Committed(phases, counts) ==
  /\ Phase' = [j \in Jobs |-> IF j \in pruned THEN "deleted" ELSE phases[j]]
  /\ rowLast' = [j \in Jobs |-> IF j \in pruned THEN 0 ELSE counts[j]]
  /\ pruned' = {}

\* A commit of the tables is a commit of what they mean.
LEMMA CommitMaps ==
  ASSUME TypeInv, LifeInv, NEW states, NEW lasts, NEW measurements,
         Commit(states, lasts, measurements), NEW phases, NEW counts,
         \A j \in pruned : born'[j] # 0,
         \A j \in Jobs \ pruned :
           /\ phases[j] = IF states[j] # "absent" THEN states[j]
                          ELSE IF born'[j] = 0 THEN "new" ELSE "deleted"
           /\ counts[j] = lasts[j]
  PROVE  Committed(phases, counts)
<1>1. /\ pruned \subseteq Jobs /\ pruned' = {}
      /\ rowState' = [j \in Jobs |-> IF j \in pruned THEN "absent" ELSE states[j]]
      /\ rowLast' = [j \in Jobs |-> IF j \in pruned THEN 0 ELSE lasts[j]]
  BY TypedStore DEF Commit, StoreType
<1>2. Phase' = [j \in Jobs |-> IF j \in pruned THEN "deleted" ELSE phases[j]]
  BY <1>1 DEF Phase
<1>3. rowLast' = [j \in Jobs |-> IF j \in pruned THEN 0 ELSE counts[j]]
  BY <1>1
<1> QED
  BY <1>1, <1>2, <1>3 DEF Committed

\* What the columns are before the step, and the jobs of the open deletions.
LEMMA BeforeStep ==
  ASSUME TypeInv, LifeInv
  PROVE  /\ rowState \in [Jobs -> States \cup {"absent"}] /\ rowLast \in [Jobs -> 0..PathLen]
         /\ jobLast \in [Jobs -> 0..PathLen] /\ PathLen \in Nat
         /\ born \in [Jobs -> Nat] /\ pruned \subseteq Jobs
         /\ \A j \in pruned : rowState[j] # "absent" /\ born[j] # 0
         /\ \A j \in Jobs : rowState[j] = "absent" => rowLast[j] = 0
BY JobRunnerAssumption, TypedStore DEF StoreType, TypeInv, TypeOK, LifeInv, LifeJob, PrunedInv

\* A DELETE of rows deletes the jobs that still have one, and those whose deletion
\* was not committed yet.
LEMMA DeleteRowsIsDelete ==
  ASSUME TypeInv, LifeInv, NEW S, DeleteRows(S)
  PROVE  LifecycleStep
<1> PICK T \in SUBSET Jobs : T = S \cap Present
  BY DEF Present
<1> DEFINE phases == [j \in Jobs |-> IF j \in T THEN "deleted" ELSE Phase[j]]
           counts == [j \in Jobs |-> IF j \in T THEN 0 ELSE rowLast[j]]
           states == [j \in Jobs |-> IF j \in S THEN "absent" ELSE rowState[j]]
           lasts  == [j \in Jobs |-> IF j \in S THEN 0 ELSE rowLast[j]]
<1>1. \A j \in pruned : born'[j] # 0
  BY BeforeStep DEF DeleteRows
<1>2. \A j \in Jobs \ pruned :
        /\ phases[j] = IF states[j] # "absent" THEN states[j]
                       ELSE IF born'[j] = 0 THEN "new" ELSE "deleted"
        /\ counts[j] = lasts[j]
  BY BeforeStep DEF DeleteRows, Present, Phase, LifeInv, LifeJob
<1>3. Commit(states, lasts, [j \in Jobs |-> IF j \in S THEN <<>> ELSE rowMeas[j]])
  BY DEF DeleteRows
<1> HIDE DEF phases, counts, states, lasts
<1>4. Committed(phases, counts)
  BY <1>1, <1>2, <1>3, CommitMaps
<1>5. \A j \in T : Lifecycle!Shown(j) \in Lifecycle!Listed
  BY BeforeStep DEF Lifecycle!Shown, Lifecycle!Listed, Lifecycle!Outcomes, States, Terminal,
     Present
<1>6. Lifecycle!Delete(T)
  BY <1>4, <1>5 DEF Lifecycle!Delete, Lifecycle!Commit, Committed, Phase, phases, counts
<1>7. Lifecycle!Next
  BY <1>6, Zenon DEF Lifecycle!Next
<1> QED
  BY <1>7 DEF LifecycleStep

\* A commit that changes no row of jobs makes the open deletions final.
LEMMA CommitIsDelete ==
  ASSUME TypeInv, LifeInv, NEW measurements, Commit(rowState, rowLast, measurements),
         UNCHANGED born
  PROVE  LifecycleStep
<1> DEFINE none == {}
           phases == [j \in Jobs |-> IF j \in none THEN "deleted" ELSE Phase[j]]
           counts == [j \in Jobs |-> IF j \in none THEN 0 ELSE rowLast[j]]
<1>1. \A j \in pruned : born'[j] # 0
  BY BeforeStep
<1>2. \A j \in Jobs \ pruned :
        /\ phases[j] = IF rowState[j] # "absent" THEN rowState[j]
                       ELSE IF born'[j] = 0 THEN "new" ELSE "deleted"
        /\ counts[j] = rowLast[j]
  BY BeforeStep DEF Phase
<1> HIDE DEF phases, counts
<1>3. Committed(phases, counts)
  BY <1>1, <1>2, CommitMaps
<1>4. Lifecycle!Delete(none) /\ none \in SUBSET Jobs
  BY <1>3 DEF Lifecycle!Delete, Lifecycle!Commit, Committed, Phase, phases, counts
<1>5. Lifecycle!Next
  BY <1>4, Zenon DEF Lifecycle!Next
<1> QED
  BY <1>5 DEF LifecycleStep

\* A write that raises changes nothing, or rolls the open deletions back.
LEMMA FailWriteIsRestore ==
  ASSUME FailWrite
  PROVE  LifecycleStep
<1>1. CASE pruned' = pruned
  BY <1>1, StoreStutter DEF FailWrite, store
<1>2. CASE pruned' = {}
  <2>1. Lifecycle!Restore
    BY <1>2 DEF FailWrite, rows, Lifecycle!Restore
  <2> QED
    BY <2>1 DEF LifecycleStep, Lifecycle!Next
<1> QED
  BY <1>1, <1>2 DEF FailWrite

LEMMA SubmitIsCreate ==
  ASSUME TypeInv, LifeInv, NEW c \in Clients, NEW j \in Jobs, SubmitJob(c, j)
  PROVE  LifecycleStep
<1>1. born[j] = 0 /\ rowState[j] = "absent" /\ j \notin pruned
  BY BeforeStep DEF SubmitJob, LifeInv, LifeJob
<1>2. born'[j] # 0 /\ \A k \in Jobs \ {j} : born'[k] = born[k]
  BY <1>1, BeforeStep, RankIsPositive DEF SubmitJob
<1> DEFINE phases == [Phase EXCEPT ![j] = "created"]
           states == [rowState EXCEPT ![j] = "created"]
<1>3. \A k \in pruned : born'[k] # 0
  BY <1>1, <1>2, BeforeStep
<1>4. \A k \in Jobs \ pruned :
        /\ phases[k] = IF states[k] # "absent" THEN states[k]
                       ELSE IF born'[k] = 0 THEN "new" ELSE "deleted"
        /\ rowLast[k] = rowLast[k]
  BY <1>1, <1>2, BeforeStep DEF Phase
<1>5. Commit(states, rowLast, rowMeas)
  BY DEF SubmitJob
<1> HIDE DEF phases, states
<1>6. Committed(phases, rowLast)
  BY <1>3, <1>4, <1>5, CommitMaps
<1>7. Lifecycle!Create(j)
  BY <1>1, <1>6 DEF Lifecycle!Create, Lifecycle!Commit, Committed, Lifecycle!Shown, Phase,
     phases
<1> QED
  BY <1>7 DEF LifecycleStep, Lifecycle!Next

\* An UPDATE of a row that nobody can see only commits.
LEMMA UpdateNothing ==
  ASSUME TypeInv, LifeInv, NEW j, NEW state, NEW last, UpdateRow(j, state, last), j \notin Present
  PROVE  LifecycleStep
BY CommitIsDelete DEF UpdateRow

\* An UPDATE of a row that is there commits the row's new columns.
LEMMA UpdateMaps ==
  ASSUME TypeInv, LifeInv, NEW j \in Present, NEW state \in States, NEW last,
         UpdateRow(j, state, last)
  PROVE  /\ j \in Jobs \ pruned /\ Lifecycle!Shown(j) = rowState[j]
         /\ Committed([Phase EXCEPT ![j] = state], [rowLast EXCEPT ![j] = last])
<1> DEFINE phases == [Phase EXCEPT ![j] = state]
           counts == [rowLast EXCEPT ![j] = last]
           states == [rowState EXCEPT ![j] = state]
<1>1. /\ j \in Jobs \ pruned /\ rowState[j] # "absent" /\ state # "absent" /\ born' = born
      /\ Commit(states, counts, rowMeas)
  BY DEF Present, UpdateRow, States, Terminal
<1>2. \A k \in pruned : born'[k] # 0
  BY <1>1, BeforeStep
<1>3. \A k \in Jobs \ pruned :
        /\ phases[k] = IF states[k] # "absent" THEN states[k]
                       ELSE IF born'[k] = 0 THEN "new" ELSE "deleted"
        /\ counts[k] = counts[k]
  BY <1>1, BeforeStep DEF Phase
<1> HIDE DEF phases, counts, states
<1>4. Committed(phases, counts)
  BY <1>1, <1>2, <1>3, CommitMaps
<1>5. Lifecycle!Shown(j) = rowState[j]
  BY <1>1 DEF Lifecycle!Shown
<1> QED
  BY <1>1, <1>4, <1>5 DEF phases, counts

LEMMA PersistRunningIsStart ==
  ASSUME TypeInv, RequestOwnsJob, LifeInv, NEW c \in Clients, PersistRunning(c)
  PROVE  LifecycleStep
<1> PICK j \in Jobs : j = reqJob[c]
  BY DEF PersistRunning, GoReq, RequestOwnsJob
<1>1. /\ rowState \in [Jobs -> States \cup {"absent"}] /\ rowLast \in [Jobs -> 0..PathLen]
      /\ pc[j] = "none"
      /\ rowState[j] \in {"absent", "created", "running"} /\ rowLast[j] = 0
  BY DEF TypeInv, TypeOK, PersistRunning, GoReq, RequestOwnsJob, LifeInv, LifeJob
<1>2. CASE FailWrite
  BY <1>2, FailWriteIsRestore
<1>3. CASE UpdateRow(j, "running", 0) /\ j \in Present
  <2>1. /\ [rowLast EXCEPT ![j] = 0] = rowLast
        /\ Committed([Phase EXCEPT ![j] = "running"], [rowLast EXCEPT ![j] = 0])
        /\ Lifecycle!Shown(j) = rowState[j] /\ j \notin pruned /\ rowState[j] # "absent"
    BY <1>1, <1>3, UpdateMaps DEF States, Present
  <2>2. CASE rowState[j] = "created"
    <3>1. Lifecycle!Start(j)
      BY <2>1, <2>2 DEF Lifecycle!Start, Lifecycle!Commit, Committed, Phase
    <3>2. Lifecycle!Next
      BY <3>1, Zenon DEF Lifecycle!Next
    <3> QED
      BY <3>2 DEF LifecycleStep
  <2>3. CASE rowState[j] = "running"
    <3>1. [rowState EXCEPT ![j] = "running"] = rowState
      BY <1>1, <2>3
    <3> QED
      BY <1>3, <2>1, <3>1, CommitIsDelete DEF UpdateRow
  <2> QED
    BY <1>1, <2>1, <2>2, <2>3
<1>4. CASE UpdateRow(j, "running", 0) /\ j \notin Present
  BY <1>4, UpdateNothing
<1> QED
  BY <1>2, <1>3, <1>4 DEF PersistRunning

LEMMA PersistProgressIsAdvance ==
  ASSUME TypeInv, LifeInv, NEW j \in Jobs, MeasuredJob(j), PersistProgress(j)
  PROVE  LifecycleStep
<1>1. /\ rowState \in [Jobs -> States \cup {"absent"}] /\ rowLast \in [Jobs -> 0..PathLen]
      /\ jobLast \in [Jobs -> 0..PathLen] /\ PathLen \in Nat
      /\ pc[j] = "progress" /\ jobState[j] = "running"
      /\ rowState[j] \in {"absent", "running"}
      /\ rowState[j] = "running" => jobLast[j] = rowLast[j] + 1
  BY JobRunnerAssumption DEF TypeInv, TypeOK, LifeInv, LifeJob, MeasuredJob, PersistProgress,
     Go, Fail,
     Driving, Unsettled, LoopSteps
<1>2. CASE FailWrite
  BY <1>2, FailWriteIsRestore
<1>3. CASE UpdateRow(j, jobState[j], jobLast[j]) /\ j \in Present
  <2>1. /\ rowState[j] = "running" /\ jobLast[j] = rowLast[j] + 1 /\ jobState[j] \in States
    BY <1>1, <1>3 DEF Present, States
  <2>2. /\ Lifecycle!Shown(j) = "running"
        /\ Committed([Phase EXCEPT ![j] = "running"], [rowLast EXCEPT ![j] = jobLast[j]])
    BY <1>1, <1>3, <2>1, UpdateMaps
  <2>3. [Phase EXCEPT ![j] = "running"] = Phase /\ rowLast[j] < PathLen
    BY <1>1, <2>1 DEF Phase
  <2>4. Lifecycle!Advance(j)
    BY <2>1, <2>2, <2>3 DEF Lifecycle!Advance, Lifecycle!Commit, Committed, Phase
  <2> QED
    BY <2>4 DEF LifecycleStep, Lifecycle!Next
<1>4. CASE UpdateRow(j, jobState[j], jobLast[j]) /\ j \notin Present
  BY <1>4, UpdateNothing
<1> QED
  BY <1>2, <1>3, <1>4 DEF PersistProgress

LEMMA PersistFinalIsFinish ==
  ASSUME TypeInv, LifeInv, NEW j \in Jobs, PersistFinal(j)
  PROVE  LifecycleStep
<1>1. /\ rowState \in [Jobs -> States \cup {"absent"}] /\ rowLast \in [Jobs -> 0..PathLen]
      /\ jobLast \in [Jobs -> 0..PathLen] /\ PathLen \in Nat
      /\ jobState[j] \in Terminal
      /\ jobState[j] = "completed" => jobLast[j] = PathLen
      /\ jobState[j] = "stopped" => jobLast[j] < PathLen
      /\ rowState[j] \in {"absent", "running"}
      /\ rowState[j] = "running" => jobLast[j] \in {rowLast[j], rowLast[j] + 1}
  BY JobRunnerAssumption DEF TypeInv, TypeOK, LifeInv, LifeJob, PersistFinal, Go,
     Driving, Unsettled, LoopSteps
<1>2. CASE FailWrite
  BY <1>2, FailWriteIsRestore
<1>3. CASE UpdateRow(j, jobState[j], jobLast[j]) /\ j \in Present
  <2> PICK outcome \in Lifecycle!Outcomes : outcome = jobState[j]
    BY <1>1 DEF Lifecycle!Outcomes, Terminal
  <2>1. outcome \in States /\ rowState[j] = "running" /\ jobLast[j] \in {rowLast[j], rowLast[j] + 1}
    BY <1>1, <1>3 DEF Present, States
  <2>2. /\ Lifecycle!Shown(j) = "running"
        /\ Committed([Phase EXCEPT ![j] = outcome], [rowLast EXCEPT ![j] = jobLast[j]])
    BY <1>3, <2>1, UpdateMaps
  <2>3. /\ jobLast[j] <= PathLen
        /\ outcome = "completed" => jobLast[j] = PathLen
        /\ outcome = "stopped" => jobLast[j] < PathLen
    BY <1>1
  <2>4. Lifecycle!Finish(j, outcome)
    BY <2>1, <2>2, <2>3, Zenon DEF Lifecycle!Finish, Lifecycle!Commit, Committed, Phase
  <2>5. Lifecycle!Next
    BY <2>4, Zenon DEF Lifecycle!Next
  <2> QED
    BY <2>5 DEF LifecycleStep
<1>4. CASE UpdateRow(j, jobState[j], jobLast[j]) /\ j \notin Present
  BY <1>4, UpdateNothing
<1> QED
  BY <1>2, <1>3, <1>4 DEF PersistFinal

\* prune_jobs deletes the rows that its selection still finds.
LEMMA PruneDeleteIsPrune ==
  ASSUME TypeInv, LifeInv, NEW j \in Jobs, PruneDelete(j)
  PROVE  LifecycleStep
<1>1. CASE FailWrite
  BY <1>1, FailWriteIsRestore
<1>2. CASE pruned' = pruned \cup (victims[j] \cap Present) /\ UNCHANGED <<rows, born>>
  <2> PICK T \in SUBSET Jobs : T = victims[j] \cap Present
    BY DEF Present
  <2>1. \A k \in T : Lifecycle!Shown(k) \in Lifecycle!Listed
    BY BeforeStep DEF Lifecycle!Shown, Lifecycle!Listed, Lifecycle!Outcomes, States, Terminal,
       Present
  <2>2. Lifecycle!Prune(T)
    BY <1>2, <2>1 DEF Lifecycle!Prune, rows
  <2>3. Lifecycle!Next
    BY <2>2, Zenon DEF Lifecycle!Next
  <2> QED
    BY <2>3 DEF LifecycleStep
<1> QED
  BY <1>1, <1>2 DEF PruneDelete

\* A measurement is no column of the jobs table, but its commit makes the open
\* deletions final.
LEMMA SaveMeasurementOnlyCommits ==
  ASSUME TypeInv, LifeInv, NEW j \in Jobs, SaveMeasurement(j)
  PROVE  LifecycleStep
BY StoreStutter, FailWriteIsRestore, CommitIsDelete DEF SaveMeasurement

LEMMA WorkerIsLifecycleStep ==
  ASSUME TypeInv, LifeInv, NEW j \in Jobs, MeasuredJob(j), Worker(j) \/ WorkerPublish(j)
  PROVE  LifecycleStep
<1>1. CASE PersistProgress(j)
  BY <1>1, PersistProgressIsAdvance
<1>2. CASE PersistFinal(j)
  BY <1>2, PersistFinalIsFinish
<1>3. CASE SaveMeasurement(j)
  BY <1>3, SaveMeasurementOnlyCommits
<1>4. CASE PruneDelete(j)
  BY <1>4, PruneDeleteIsPrune
<1>5. CASE PruneCommit(j)
  BY <1>5, CommitIsDelete, FailWriteIsRestore DEF PruneCommit
<1>6. CASE PruneAtomically(j)
  BY <1>6, DeleteRowsIsDelete DEF PruneAtomically
<1>7. CASE \/ CheckStop(j) \/ MoveArm(j) \/ AwaitArrival(j) \/ ScanWaypoint(j)
           \/ ReturnMove(j) \/ AwaitReturn(j) \/ ReleaseSlot(j) \/ ResetStop(j)
           \/ PruneCount(j) \/ PruneSelect(j) \/ WorkerPublish(j)
  <2>1. UNCHANGED store
    BY <1>7 DEF CheckStop, MoveArm, AwaitArrival, ScanWaypoint, ReturnMove, AwaitReturn,
       ReleaseSlot, ResetStop, PruneCount, PruneSelect, WorkerPublish, PublishWaypointStarted,
       PublishWaypointCompleted, PublishTerminal
  <2> QED
    BY <2>1, StoreStutter
<1> QED
  BY <1>1, <1>2, <1>3, <1>4, <1>5, <1>6, <1>7 DEF Worker

LEMMA NextIsLifecycleStep ==
  TypeInv /\ RequestOwnsJob /\ MeasuredInv /\ LifeInv /\ [Next]_vars => LifecycleStep
<1> SUFFICES ASSUME TypeInv, RequestOwnsJob, MeasuredInv, LifeInv, [Next]_vars PROVE LifecycleStep
  OBVIOUS
<1>1. ASSUME NEW j \in Jobs, Worker(j) \/ WorkerPublish(j) PROVE LifecycleStep
  BY <1>1, WorkerIsLifecycleStep DEF MeasuredInv
<1>2. ASSUME NEW c \in Clients, Request(c) \/ PublishStarted(c) PROVE LifecycleStep
  <2>1. CASE PersistRunning(c)
    BY <2>1, PersistRunningIsStart
  <2>2. CASE SaveJobImage(c)
    BY <2>2, StoreStutter, CommitIsDelete, FailWriteIsRestore DEF SaveJobImage
  <2>3. CASE LookupJob(c) \/ CheckSlot(c) \/ ClearStop(c) \/ ClaimSlot(c) \/ SpawnWorker(c)
             \/ PublishStarted(c)
    BY <2>3, StoreStutter DEF LookupJob, CheckSlot, ClearStop, ClaimSlot, SpawnWorker,
       PublishStarted
  <2> QED
    BY <1>2, <2>1, <2>2, <2>3 DEF Request
<1>3. ASSUME NEW c \in Clients, NEW j \in Jobs, SubmitJob(c, j) PROVE LifecycleStep
  BY <1>3, SubmitIsCreate
<1>4. CASE Crash
  <2>1. CASE pruned' = {} /\ UNCHANGED <<rows, born>>
    <3>1. Lifecycle!Restore
      BY <2>1 DEF rows, Lifecycle!Restore
    <3> QED
      BY <3>1 DEF LifecycleStep, Lifecycle!Next
  <2> QED
    BY <1>4, <2>1, DeleteRowsIsDelete DEF Crash
<1>5. ASSUME NEW j \in Jobs, DeleteJob(j) PROVE LifecycleStep
  BY <1>5, DeleteRowsIsDelete DEF DeleteJob
<1>6. CASE ManualMove \/ Quiescent \/ UNCHANGED vars
  BY <1>6, StoreStutter DEF ManualMove, Quiescent, vars
<1>7. ASSUME NEW s \in Stoppers, StopCheck(s) \/ StopCall(s) PROVE LifecycleStep
  BY <1>7, StoreStutter DEF StopCheck, StopCall, StopFlag, StopRobot
<1> QED
  BY <1>1, <1>2, <1>3, <1>4, <1>5, <1>6, <1>7 DEF Next, Outside

LifeIInv == MeasuredIInv /\ LifeInv

\* The invariant holds at the start and every step keeps it.
LEMMA LifeInvariant ==
  /\ Init => LifeIInv
  /\ LifeIInv /\ [Next]_vars => LifeIInv'
<1>1. Init => LifeIInv
  BY TypeInit, OwnsInit, JobRunnerAssumption
     DEF Init, LifeIInv, MeasuredIInv, MeasuredInv, MeasuredJob, Measured, Counted, Driving, Unsettled,
         LoopSteps, LifeInv, LifeJob, LifeRequest, PrunedInv
<1> QED
  BY <1>1, TypeStep, OwnsStep, MeasuredStep, LifeStep DEF LifeIInv, MeasuredIInv

\* The rows of the jobs table live the life JobLifecycle promises to readers, for
\* any number of jobs, users and stop calls, with either adapter, with writes that
\* fail and with restarts: a job appears once, is completed only when every
\* waypoint was counted, has one outcome, and does not come back when deleted. The
\* one exception is a deletion by retention that nobody has committed yet: it may
\* be undone by a restart or by a write that raises.
THEOREM JobRunnerImplementsLifecycle == Spec => LifecycleSpec
<1>1. Init => Lifecycle!Init
  BY DEF Init, Lifecycle!Init
<1>2. LifeIInv /\ [Next]_vars => [Lifecycle!Next]_(Lifecycle!vars)
  BY NextIsLifecycleStep DEF LifeIInv, MeasuredIInv, LifecycleStep
<1> QED
  BY <1>1, <1>2, LifeInvariant, PTL DEF Spec, LifecycleSpec, Lifecycle!Spec

-----------------------------------------------------------------------------
(* What the rows of a job say when storage does not fail: the progress     *)
(* column agrees with the measurement rows, and a row says running only    *)
(* while somebody will still store the outcome.                            *)
(*                                                                         *)
(* Both are false when writes fail: a measurement that cannot be inserted  *)
(* is counted by the final update all the same, and a failing final update *)
(* leaves the row running. Restarts do not disturb the first, but they do  *)
(* the second, because nothing repairs the rows at start-up.               *)

\* The measurement rows of j against its progress column and, unless the INSERT
\* of the last one found the row deleted, its Job object.
ProgressJob(j) == rowState[j] # "absent" =>
  /\ Measured(j, rowLast[j]) \/ (rowLast[j] < PathLen /\ Measured(j, rowLast[j] + 1))
  /\ j \notin pruned /\ Unsettled(j) /\ ~Driving(j) =>
       rowLast[j] = jobLast[j] /\ Measured(j, jobLast[j])
  /\ rowState[j] \in Terminal => Measured(j, rowLast[j])

ProgressInv == \A j \in Jobs : ProgressJob(j)

ProgressIInv == LifeIInv /\ ProgressInv

\* Without failing writes and restarts no open deletion is undone.
OpenOrDeleted(k) == k \in pruned => k \in pruned' \/ rowState'[k] = "absent"

LEMMA DeletionsStay ==
  ASSUME ~WritesMayFail, TypeInv, Next \/ UNCHANGED vars, ~Crash, NEW k \in Jobs
  PROVE  OpenOrDeleted(k)
<1> USE DEF OpenOrDeleted, UpdateRow, DeleteRows, Commit, FailWrite, store
<1>1. ASSUME NEW j \in Jobs, Worker(j) \/ WorkerPublish(j) PROVE OpenOrDeleted(k)
  <2>1. CASE PruneDelete(j)
    BY <2>1 DEF PruneDelete
  <2>2. CASE \/ CheckStop(j) \/ MoveArm(j) \/ AwaitArrival(j) \/ ScanWaypoint(j)
             \/ ReturnMove(j) \/ AwaitReturn(j) \/ ReleaseSlot(j) \/ ResetStop(j)
             \/ PruneCount(j) \/ PruneSelect(j) \/ WorkerPublish(j)
    BY <2>2 DEF CheckStop, MoveArm, AwaitArrival, ScanWaypoint, ReturnMove, AwaitReturn,
       ReleaseSlot, ResetStop, PruneCount, PruneSelect, WorkerPublish, PublishWaypointStarted,
       PublishWaypointCompleted, PublishTerminal
  <2>3. CASE SaveMeasurement(j)
    BY <2>3 DEF SaveMeasurement
  <2>4. CASE PersistProgress(j) \/ PersistFinal(j) \/ PruneCommit(j) \/ PruneAtomically(j)
    BY <2>4 DEF PersistProgress, PersistFinal, PruneCommit, PruneAtomically
  <2> QED
    BY <1>1, <2>1, <2>2, <2>3, <2>4 DEF Worker
<1>2. ASSUME NEW c \in Clients, Request(c) \/ PublishStarted(c) PROVE OpenOrDeleted(k)
  BY <1>2 DEF Request, SaveJobImage, LookupJob, CheckSlot, ClearStop, ClaimSlot, PersistRunning,
     SpawnWorker, PublishStarted
<1>3. ASSUME NEW c \in Clients, NEW j \in Jobs, SubmitJob(c, j) PROVE OpenOrDeleted(k)
  BY <1>3 DEF SubmitJob
<1>4. ASSUME NEW j \in Jobs, DeleteJob(j) PROVE OpenOrDeleted(k)
  BY <1>4 DEF DeleteJob
<1>5. CASE ManualMove \/ Quiescent \/ UNCHANGED vars
  BY <1>5 DEF ManualMove, Quiescent, vars
<1>6. ASSUME NEW s \in Stoppers, StopCheck(s) \/ StopCall(s) PROVE OpenOrDeleted(k)
  BY <1>6 DEF StopCheck, StopCall, StopFlag, StopRobot
<1> QED
  BY <1>1, <1>2, <1>3, <1>4, <1>5, <1>6 DEF Next, Outside

\* The rows of j are as before, or all gone.
LEMMA ProgressFrame ==
  ASSUME NEW k \in Jobs, ProgressJob(k), LifeJob(k), KeptOrDeleted(k), RowKeptOrDeleted(k),
         OpenOrDeleted(k),
         pc'[k] = pc[k], jobLast'[k] = jobLast[k]
  PROVE  ProgressJob(k)'
BY DEF ProgressJob, KeptOrDeleted, RowKeptOrDeleted, OpenOrDeleted, Measured, Driving, Unsettled

\* A DELETE removes the row and the measurements of a job together.
LEMMA DeleteRowsKeepsProgress ==
  ASSUME NEW S, DeleteRows(S), NEW k \in Jobs, LifeJob(k)
  PROVE  KeptOrDeleted(k) /\ RowKeptOrDeleted(k)
BY DEF DeleteRows, Commit, KeptOrDeleted, RowKeptOrDeleted, LifeJob

LEMMA ProgressWorker ==
  ASSUME ~WritesMayFail, TypeInv, NEW j \in Jobs, MeasuredJob(j), LifeJob(j), ProgressJob(j),
         Worker(j) \/ WorkerPublish(j)
  PROVE  ProgressJob(j)'
<1>1. /\ pc \in [Jobs -> PcSteps] /\ index \in [Jobs -> 0..PathLen]
      /\ jobState \in [Jobs -> States]
      /\ rowState \in [Jobs -> States \cup {"absent"}]
      /\ rowLast \in [Jobs -> 0..PathLen] /\ jobLast \in [Jobs -> 0..PathLen]
      /\ rowMeas \in [Jobs -> Seq(0..PathLen - 1)]
      /\ PathLen \in Nat \ {0}
      /\ pc[j] \in BodySteps => index[j] < PathLen
      /\ ForeignKeys \/ pruned = {}
  BY JobRunnerAssumption DEF TypeInv, TypeOK, IndexInBody
<1>2. /\ Driving(j) => jobState[j] = "running" /\ jobLast[j] = Counted(j)
      /\ Driving(j) /\ rowState[j] # "absent" => Measured(j, jobLast[j])
      /\ Unsettled(j) => rowState[j] \in {"absent", "running"}
      /\ Driving(j) /\ rowState[j] # "absent" /\ pc[j] # "progress" => rowLast[j] = jobLast[j]
      /\ pc[j] = "progress" /\ rowState[j] # "absent" => jobLast[j] = rowLast[j] + 1
  BY DEF MeasuredJob, LifeJob, Driving, Unsettled, LoopSteps
\* Until its outcome is stored the rows of j are those counted by its thread.
<1> USE <1>1, <1>2 DEF ProgressJob, Measured, Driving, Unsettled, BodySteps, LoopSteps, Terminal,
            Go, Fail, Commit, FailWrite, store, rows, thread
<1>3. CASE CheckStop(j)
  BY <1>3 DEF CheckStop
<1>4. CASE MoveArm(j)
  BY <1>4 DEF MoveArm
<1>5. CASE AwaitArrival(j)
  BY <1>5 DEF AwaitArrival
<1>6. CASE ScanWaypoint(j)
  BY <1>6 DEF ScanWaypoint
<1>7. CASE SaveMeasurement(j)
  <2>1. CASE j \notin Present
    BY <1>7, <2>1 DEF SaveMeasurement, Present
  <2>2. CASE j \in Present
    <3>1. /\ pc[j] = "save" /\ pc'[j] = "progress" /\ rowState'[j] = rowState[j]
          /\ rowLast'[j] = rowLast[j] /\ rowMeas'[j] = Append(rowMeas[j], index[j])
          /\ rowState[j] = "running"
      BY <1>7, <2>2 DEF SaveMeasurement, Present
    <3>2. rowLast[j] = index[j] /\ Measured(j, index[j]) /\ index[j] < PathLen
      BY <3>1 DEF Counted, LifeJob, MeasuredJob
    <3>3. rowMeas'[j] = Append(rowMeas[j], index[j]) /\ rowMeas[j] \in Seq(0..PathLen - 1)
      BY <3>1
    <3>4. Len(rowMeas'[j]) = index[j] + 1
      BY <3>2, <3>3
    <3>5. \A i \in 1..index[j] + 1 : rowMeas'[j][i] = i - 1
      BY <3>2, <3>3
    <3> QED
      BY <3>1, <3>2, <3>4, <3>5
  <2> QED
    BY <2>1, <2>2
<1>8. CASE PersistProgress(j)
  BY <1>8 DEF PersistProgress, UpdateRow, Present
<1>9. CASE ReturnMove(j)
  BY <1>9 DEF ReturnMove
<1>10. CASE AwaitReturn(j)
  BY <1>10 DEF AwaitReturn
<1>11. CASE ReleaseSlot(j)
  BY <1>11 DEF ReleaseSlot
<1>12. CASE ResetStop(j)
  BY <1>12 DEF ResetStop
<1>13. CASE PersistFinal(j)
  BY <1>13 DEF PersistFinal, UpdateRow, Present
<1>14. CASE PruneCount(j)
  BY <1>14 DEF PruneCount
<1>15. CASE PruneSelect(j)
  BY <1>15 DEF PruneSelect
<1>16. CASE PruneDelete(j)
  BY <1>16 DEF PruneDelete
<1>17. CASE PruneCommit(j)
  BY <1>17 DEF PruneCommit
<1>18. CASE PruneAtomically(j)
  BY <1>18 DEF PruneAtomically, DeleteRows
<1>19. CASE PublishWaypointStarted(j)
  BY <1>19 DEF PublishWaypointStarted
<1>20. CASE PublishWaypointCompleted(j)
  BY <1>20 DEF PublishWaypointCompleted
<1>21. CASE PublishTerminal(j)
  BY <1>21 DEF PublishTerminal
<1> QED
  BY <1>3, <1>4, <1>5, <1>6, <1>7, <1>8, <1>9, <1>10, <1>11, <1>12, <1>13, <1>14, <1>15, <1>16,
     <1>17, <1>18, <1>19, <1>20, <1>21 DEF Worker, WorkerPublish

LEMMA ProgressStep == ~WritesMayFail /\ ProgressIInv /\ [Next]_vars => ProgressInv'
<1> SUFFICES ASSUME ~WritesMayFail, ProgressIInv, [Next]_vars, NEW j \in Jobs PROVE ProgressJob(j)'
  BY DEF ProgressInv
<1>1. /\ pc \in [Jobs -> PcSteps] /\ rowState \in [Jobs -> States \cup {"absent"}]
      /\ rowLast \in [Jobs -> 0..PathLen] /\ reqPc \in [Clients -> ReqSteps]
      /\ TypeInv /\ RequestOwnsJob /\ MeasuredJob(j) /\ LifeJob(j) /\ ProgressJob(j)
  BY DEF ProgressIInv, ProgressInv, LifeIInv, MeasuredIInv, MeasuredInv, LifeInv, TypeInv,
     TypeOK
<1>2. CASE Crash
  <2>1. KeptOrDeleted(j) /\ RowKeptOrDeleted(j)
    BY <1>1, <1>2, DeleteRowsKeepsProgress DEF Crash, KeptOrDeleted, RowKeptOrDeleted, rows
  <2> QED
    BY <1>1, <1>2, <2>1 DEF Crash, ProgressJob, KeptOrDeleted, RowKeptOrDeleted, Measured,
       Driving,
       Unsettled, LoopSteps
<1> SUFFICES ASSUME ~Crash PROVE ProgressJob(j)'
  BY <1>2
<1>3. OpenOrDeleted(j)
  BY <1>1, DeletionsStay
<1>4. ASSUME KeptOrDeleted(j), RowKeptOrDeleted(j), pc'[j] = pc[j], jobLast'[j] = jobLast[j]
      PROVE  ProgressJob(j)'
  BY <1>1, <1>3, <1>4, ProgressFrame
<1>5. ASSUME NEW k \in Jobs, Worker(k) \/ WorkerPublish(k) PROVE ProgressJob(j)'
  <2>1. CASE k = j
    BY <1>1, <1>5, <2>1, ProgressWorker
  <2>2. CASE k # j
    BY <1>1, <1>4, <1>5, <2>2, WorkerFrame, WorkerKeepsOthers
  <2> QED
    BY <2>1, <2>2
<1>6. ASSUME NEW c \in Clients, Request(c) \/ PublishStarted(c) PROVE ProgressJob(j)'
  <2>1. CASE PersistRunning(c)
    <3>1. /\ reqJob[c] \in Jobs /\ pc[reqJob[c]] = "none" /\ reqPc[c] = "persist"
          /\ UpdateRow(reqJob[c], "running", 0) /\ UNCHANGED thread
      BY <1>1, <2>1 DEF PersistRunning, GoReq, RequestOwnsJob, FailWrite
    <3>2. CASE j = reqJob[c]
      <4>1. rowLast[j] = 0 /\ Measured(j, 0)
        BY <1>1, <3>1, <3>2 DEF LifeJob, MeasuredJob, Measured
      <4>2. rowState'[j] # "absent" =>
              rowState'[j] = "running" /\ rowLast'[j] = 0 /\ rowMeas'[j] = rowMeas[j]
        BY <1>1, <3>1, <3>2, UpdateRowCases
      <4> QED
        BY <1>1, <3>1, <3>2, <4>1, <4>2 DEF ProgressJob, Measured, Terminal, Driving,
           Unsettled, LoopSteps, thread
    <3>3. CASE j # reqJob[c]
      <4>1. KeptOrDeleted(j) /\ RowKeptOrDeleted(j)
        BY <1>1, <3>1, <3>3
           DEF UpdateRow, Commit, KeptOrDeleted, RowKeptOrDeleted, LifeJob
      <4> QED
        BY <1>4, <3>1, <4>1 DEF thread
    <3> QED
      BY <3>2, <3>3
  <2>2. CASE SpawnWorker(c)
    BY <1>1, <2>2 DEF SpawnWorker, GoReq, ProgressJob, Measured, Driving, Unsettled, LoopSteps,
       store, rows
  <2>3. CASE SaveJobImage(c)
    <3>1. KeptOrDeleted(j) /\ RowKeptOrDeleted(j) /\ UNCHANGED thread
      BY <1>1, <2>3 DEF SaveJobImage, KeptOrDeleted, RowKeptOrDeleted, LifeJob, Commit,
         FailWrite,
         store, rows
    <3> QED
      BY <1>4, <3>1 DEF thread
  <2>4. CASE LookupJob(c) \/ CheckSlot(c) \/ ClearStop(c) \/ ClaimSlot(c) \/ PublishStarted(c)
    BY <1>4, <2>4
       DEF LookupJob, CheckSlot, ClearStop, ClaimSlot, PublishStarted, KeptOrDeleted,
           RowKeptOrDeleted, store, rows, thread
  <2> QED
    BY <1>6, <2>1, <2>2, <2>3, <2>4 DEF Request
<1>7. ASSUME NEW c \in Clients, NEW k \in Jobs, SubmitJob(c, k) PROVE ProgressJob(j)'
  <2>1. /\ Commit([rowState EXCEPT ![k] = "created"], rowLast, rowMeas)
        /\ UNCHANGED thread /\ born[k] = 0
    BY <1>7 DEF SubmitJob
  <2>2. CASE j = k
    <3>1. pc[j] = "none" /\ rowLast[j] = 0 /\ Measured(j, 0)
      BY <1>1, <2>1, <2>2 DEF RequestOwnsJob, LifeJob, MeasuredJob, Measured
    <3>2. rowState'[j] # "absent" =>
            rowState'[j] = "created" /\ rowLast'[j] = 0 /\ rowMeas'[j] = rowMeas[j]
      BY <1>1, <2>1, <2>2, <3>1 DEF Commit
    <3> QED
      BY <1>1, <2>1, <2>2, <3>1, <3>2 DEF ProgressJob, Measured, Terminal, Driving, Unsettled,
         LoopSteps, thread
  <2>3. CASE j # k
    <3>1. KeptOrDeleted(j) /\ RowKeptOrDeleted(j)
      BY <1>1, <2>1, <2>3 DEF Commit, KeptOrDeleted, RowKeptOrDeleted, LifeJob
    <3> QED
      BY <1>4, <2>1, <3>1 DEF thread
  <2> QED
    BY <2>2, <2>3
<1>8. ASSUME NEW k \in Jobs, DeleteJob(k) PROVE ProgressJob(j)'
  BY <1>1, <1>4, <1>8, DeleteRowsKeepsProgress DEF DeleteJob, thread
<1>9. CASE ManualMove \/ Quiescent \/ UNCHANGED vars
  BY <1>4, <1>9
     DEF ManualMove, Quiescent, vars, KeptOrDeleted, RowKeptOrDeleted, store, rows, thread
<1>10. ASSUME NEW s \in Stoppers, StopCheck(s) \/ StopCall(s) PROVE ProgressJob(j)'
  BY <1>4, <1>10
     DEF StopCheck, StopCall, StopFlag, StopRobot, KeptOrDeleted, RowKeptOrDeleted, store, rows,
         thread
<1> QED
  BY <1>5, <1>6, <1>7, <1>8, <1>9, <1>10 DEF Next, Outside

\* As long as no write fails, the progress column and the measurement rows of a
\* job never disagree by more than the row just inserted, and not at all once an
\* outcome is stored, with any number of users and with restarts at any moment.
THEOREM ProgressMeansMeasured ==
  ASSUME ~WritesMayFail
  PROVE  Spec => []ProgressIsMeasured
<1>1. Init => ProgressIInv
  BY LifeInvariant DEF Init, ProgressIInv, ProgressInv, ProgressJob
<1>2. ProgressIInv /\ [Next]_vars => ProgressIInv'
  BY LifeInvariant, ProgressStep DEF ProgressIInv
<1>3. ProgressIInv => ProgressIsMeasured
  <2> SUFFICES ASSUME ProgressIInv, NEW j \in Jobs, rowState[j] # "absent"
               PROVE  /\ \A i \in 1..Len(rowMeas[j]) : rowMeas[j][i] = i - 1
                      /\ rowLast[j] <= Len(rowMeas[j]) /\ Len(rowMeas[j]) <= rowLast[j] + 1
                      /\ rowState[j] \in Terminal => rowLast[j] = Len(rowMeas[j])
    BY DEF ProgressIsMeasured
  <2>1. rowLast[j] \in 0..PathLen /\ ProgressJob(j)
    BY DEF ProgressIInv, ProgressInv, LifeIInv, MeasuredIInv, TypeInv, TypeOK
  <2> QED
    BY <2>1, JobRunnerAssumption DEF ProgressJob, Measured
<1> QED
  BY <1>1, <1>2, <1>3, PTL DEF Spec

-----------------------------------------------------------------------------
(* A running job has somebody to end it.                                   *)

\* A thread that leaves a running row behind has yet to store its outcome.
LEMMA OwnedWorker ==
  ASSUME ~WritesMayFail, LifeIInv, NEW j \in Jobs, Worker(j) \/ WorkerPublish(j),
         RunningIsOwned, rowState'[j] = "running"
  PROVE  Unsettled(j)'
<1>1. /\ pc \in [Jobs -> PcSteps] /\ rowState \in [Jobs -> States \cup {"absent"}]
      /\ pc[j] # "none" /\ (Unsettled(j) /\ ~Driving(j) => jobState[j] \in Terminal)
  BY WorkerAndSlot DEF LifeIInv, MeasuredIInv, LifeInv, LifeJob, TypeInv, TypeOK
<1>2. rowState[j] = "running" => Unsettled(j)
  BY <1>1 DEF RunningIsOwned, Unsettled, LifeIInv, MeasuredIInv, RequestOwnsJob
<1> USE <1>1, <1>2 DEF Unsettled, Driving, LoopSteps, Terminal, Go, Fail, Commit, FailWrite, store, rows, thread
<1>3. CASE CheckStop(j)
  BY <1>3 DEF CheckStop
<1>4. CASE MoveArm(j)
  BY <1>4 DEF MoveArm
<1>5. CASE AwaitArrival(j)
  BY <1>5 DEF AwaitArrival
<1>6. CASE ScanWaypoint(j)
  BY <1>6 DEF ScanWaypoint
<1>7. CASE SaveMeasurement(j)
  BY <1>7 DEF SaveMeasurement
<1>8. CASE PersistProgress(j)
  BY <1>8 DEF PersistProgress, UpdateRow, Present
<1>9. CASE ReturnMove(j)
  BY <1>9 DEF ReturnMove
<1>10. CASE AwaitReturn(j)
  BY <1>10 DEF AwaitReturn
<1>11. CASE ReleaseSlot(j)
  BY <1>11 DEF ReleaseSlot
<1>12. CASE ResetStop(j)
  BY <1>12 DEF ResetStop
<1>13. CASE PersistFinal(j)
  BY <1>13 DEF PersistFinal, UpdateRow, Present
<1>14. CASE PruneCount(j)
  BY <1>14 DEF PruneCount
<1>15. CASE PruneSelect(j)
  BY <1>15 DEF PruneSelect
<1>16. CASE PruneDelete(j)
  BY <1>16 DEF PruneDelete
<1>17. CASE PruneCommit(j)
  BY <1>17 DEF PruneCommit
<1>18. CASE PruneAtomically(j)
  BY <1>18 DEF PruneAtomically, DeleteRows
<1>19. CASE PublishWaypointStarted(j)
  BY <1>19 DEF PublishWaypointStarted
<1>20. CASE PublishWaypointCompleted(j)
  BY <1>20 DEF PublishWaypointCompleted
<1>21. CASE PublishTerminal(j)
  BY <1>21 DEF PublishTerminal
<1> QED
  BY <1>3, <1>4, <1>5, <1>6, <1>7, <1>8, <1>9, <1>10, <1>11, <1>12, <1>13, <1>14, <1>15, <1>16,
     <1>17, <1>18, <1>19, <1>20, <1>21 DEF Worker, WorkerPublish

LEMMA OwnedStep ==
  ASSUME ~WritesMayFail, MaxCrashes = 0, LifeIInv, RunningIsOwned, [Next]_vars
  PROVE  RunningIsOwned'
<1> SUFFICES ASSUME NEW j \in Jobs, rowState'[j] = "running"
             PROVE  \/ Unsettled(j)'
                    \/ \E c \in Clients : reqJob'[c] = j /\ reqPc'[c] = "spawn"
  BY DEF RunningIsOwned, Unsettled
<1>1. /\ pc \in [Jobs -> PcSteps] /\ rowState \in [Jobs -> States \cup {"absent"}]
      /\ jobState \in [Jobs -> States]
      /\ reqPc \in [Clients -> ReqSteps] /\ reqJob \in [Clients -> Jobs \cup {NoJob}]
      /\ crashes \in 0..MaxCrashes
      /\ TypeInv /\ RequestOwnsJob /\ LifeJob(j)
  BY DEF LifeIInv, MeasuredIInv, LifeInv, TypeInv, TypeOK
<1>2. rowState[j] = "running" =>
        Unsettled(j) \/ \E c \in Clients : reqJob[c] = j /\ reqPc[c] = "spawn"
  BY DEF RunningIsOwned, Unsettled
<1>3. ASSUME NEW k \in Jobs, Worker(k) \/ WorkerPublish(k)
      PROVE  \/ Unsettled(j)'
             \/ \E c \in Clients : reqJob'[c] = j /\ reqPc'[c] = "spawn"
  <2>1. UNCHANGED request
    BY <1>1, <1>3, WorkerAndSlot DEF request
  <2>2. CASE k # j
    BY <1>1, <1>2, <1>3, <2>1, <2>2, WorkerFrame DEF KeptOrDeleted, Unsettled, request
  <2>3. CASE k = j
    BY <1>1, <1>3, <2>1, <2>3, OwnedWorker
  <2> QED
    BY <2>2, <2>3
<1>4. ASSUME NEW c \in Clients, Request(c) \/ PublishStarted(c)
      PROVE  \/ Unsettled(j)'
             \/ \E d \in Clients : reqJob'[d] = j /\ reqPc'[d] = "spawn"
  <2>1. CASE PersistRunning(c)
    <3>1. reqJob' = reqJob /\ reqPc[c] = "persist" /\ reqPc'[c] = "spawn" /\ UNCHANGED thread
          /\ UpdateRow(reqJob[c], "running", 0) /\ \A d \in Clients \ {c} : reqPc'[d] = reqPc[d]
      BY <1>1, <2>1 DEF PersistRunning, GoReq, FailWrite
    <3>2. CASE j = reqJob[c]
      BY <3>1, <3>2
    <3>3. CASE j # reqJob[c]
      <4>1. rowState[j] = "running"
        BY <1>1, <3>1, <3>3 DEF UpdateRow, Commit
      <4> QED
        BY <1>2, <3>1, <3>3, <4>1 DEF Unsettled, thread
    <3> QED
      BY <3>2, <3>3
  <2>2. CASE SpawnWorker(c)
    BY <1>1, <1>2, <2>2 DEF SpawnWorker, GoReq, RequestOwnsJob, Unsettled, LoopSteps, store,
       rows
  <2>3. CASE SaveJobImage(c) \/ LookupJob(c) \/ CheckSlot(c) \/ ClearStop(c) \/ ClaimSlot(c)
             \/ PublishStarted(c)
    <3>1. /\ rowState[j] = "running" /\ UNCHANGED thread /\ reqJob' = reqJob
          /\ \A d \in Clients : reqPc[d] = "spawn" => reqPc'[d] = "spawn"
      BY <1>1, <2>3 DEF SaveJobImage, LookupJob, CheckSlot, ClearStop, ClaimSlot,
         PublishStarted,
         GoReq, Commit, FailWrite, store, rows
    <3> QED
      BY <1>2, <3>1 DEF Unsettled, thread
  <2> QED
    BY <1>4, <2>1, <2>2, <2>3 DEF Request
<1>5. ASSUME NEW c \in Clients, NEW k \in Jobs, SubmitJob(c, k)
      PROVE  \/ Unsettled(j)'
             \/ \E d \in Clients : reqJob'[d] = j /\ reqPc'[d] = "spawn"
  <2>1. /\ rowState[j] = "running" /\ UNCHANGED thread
        /\ \A d \in Clients : reqPc[d] = "spawn" => reqPc'[d] = "spawn" /\ reqJob'[d] = reqJob[d]
    BY <1>1, <1>5 DEF SubmitJob, GoReq, Commit
  <2> QED
    BY <1>2, <2>1 DEF Unsettled, thread
<1>6. CASE Crash
  BY <1>1, <1>6 DEF Crash
<1>7. ASSUME NEW k \in Jobs, DeleteJob(k)
      PROVE  \/ Unsettled(j)'
             \/ \E c \in Clients : reqJob'[c] = j /\ reqPc'[c] = "spawn"
  BY <1>1, <1>2, <1>7 DEF DeleteJob, DeleteRows, Commit, Unsettled, request, thread
<1>8. CASE ManualMove \/ Quiescent \/ UNCHANGED vars
  BY <1>2, <1>8 DEF ManualMove, Quiescent, vars, Unsettled, store, rows, request, thread
<1>9. ASSUME NEW s \in Stoppers, StopCheck(s) \/ StopCall(s)
      PROVE  \/ Unsettled(j)'
             \/ \E c \in Clients : reqJob'[c] = j /\ reqPc'[c] = "spawn"
  BY <1>2, <1>9 DEF StopCheck, StopCall, StopFlag, StopRobot, Unsettled, store, rows, request,
     thread
<1> QED
  BY <1>3, <1>4, <1>5, <1>6, <1>7, <1>8, <1>9 DEF Next, Outside

\* As long as no write fails and the process lives, a row that says running
\* belongs to a request about to start its thread or to a thread that will store
\* the outcome, however many requests race for the slot.
THEOREM RunningMeansOwned ==
  ASSUME ~WritesMayFail, MaxCrashes = 0
  PROVE  Spec => []RunningIsOwned
<1>1. Init => RunningIsOwned
  BY DEF Init, RunningIsOwned
<1>2. LifeIInv /\ RunningIsOwned /\ [Next]_vars => RunningIsOwned'
  BY OwnedStep
<1> QED
  BY <1>1, <1>2, LifeInvariant, PTL DEF Spec
=============================================================================
