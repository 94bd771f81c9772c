-------------------------- MODULE JobRunner_proofs --------------------------
(***************************************************************************)
(* Theorems about JobRunner, for every value of its constants.             *)
(*                                                                         *)
(* Type correctness needs to know that index[j] is short of PathLen while  *)
(* the thread of j is inside the loop body (IndexInBody). One driver at a  *)
(* time needs the life of a request (RequestOwnsJob), and that the slot a  *)
(* request has seen free, or has claimed, stays so until its thread runs   *)
(* (SlotInv). The latter is only true when posts are serialised, which is  *)
(* the hypothesis of the theorem: run_job itself does not serialise them.  *)
(***************************************************************************)
EXTENDS JobRunner, FiniteSetTheorems, SequenceTheorems, TLAPS

BodySteps == {"announce", "move", "arrive", "scan", "save", "progress", "report"}

\* In the body of the loop there is a current waypoint.
IndexInBody == \A j \in Jobs : pc[j] \in BodySteps => index[j] < PathLen

TypeInv == TypeOK /\ IndexInBody

\* A request past create_job has a job of its own whose row was inserted, and
\* the thread of that job does not exist before the request spawns it.
RequestOwnsJob ==
  /\ \A c \in Clients : reqPc[c] # "idle" => reqJob[c] \in Jobs /\ born[reqJob[c]] # 0
  /\ \A c \in Clients : reqPc[c] \notin {"idle", "publish"} => pc[reqJob[c]] = "none"
  /\ \A c, d \in Clients : c # d /\ reqPc[c] # "idle" /\ reqPc[d] # "idle" => reqJob[c] # reqJob[d]
  /\ \A j \in Jobs : born[j] = 0 => pc[j] = "none"

Holding(j) == pc[j] \in LoopSteps \cup {"release"}

\* Who the slot belongs to, from the check in run_job to the finally block.
SlotInv ==
  /\ \A j \in Jobs : Holding(j) => running = j
  /\ \A c \in Clients : reqPc[c] \in {"clear", "claim"} => running = NoJob
  /\ \A c \in Clients : reqPc[c] \in {"persist", "spawn"} => running = reqJob[c]

SlotIInv == TypeInv /\ RequestOwnsJob /\ SlotInv

-----------------------------------------------------------------------------
(* Lemmas about the helpers.                                               *)

LEMMA PresentIsFinite == IsFiniteSet(Present)
BY JobRunnerAssumption, FS_Subset DEF Present

\* The number of surplus rows counted by prune_jobs is a natural when positive.
LEMMA ExcessIsNat == Excess > 0 => Excess \in Nat
BY PresentIsFinite, FS_CardinalityType, JobRunnerAssumption DEF Excess

\* The creation rank given to a new job.
LEMMA RankIsPositive == 1 + Cardinality({k \in Jobs : born[k] # 0}) \in Nat \ {0}
<1>1. IsFiniteSet({k \in Jobs : born[k] # 0})
  BY JobRunnerAssumption, FS_Subset
<1>2. Cardinality({k \in Jobs : born[k] # 0}) \in Nat
  BY <1>1, FS_CardinalityType
<1> QED
  BY <1>2

LEMMA OldestAreJobs == ASSUME NEW n PROVE Oldest(n) \in SUBSET Jobs
BY DEF Oldest, Present

\* The tables and the set of open deletions are well typed.
StoreType ==
  /\ rowState \in [Jobs -> States \cup {"absent"}]
  /\ rowLast \in [Jobs -> 0..PathLen]
  /\ rowMeas \in [Jobs -> Seq(0..PathLen - 1)]
  /\ born \in [Jobs -> Nat]
  /\ pruned \subseteq Jobs /\ (ForeignKeys \/ pruned = {})

LEMMA TypedStore == TypeInv => StoreType
BY DEF TypeInv, TypeOK, StoreType

\* A transaction that leaves well typed columns leaves the store well typed.
LEMMA CommitType ==
  ASSUME NEW states \in [Jobs -> States \cup {"absent"}], NEW lasts \in [Jobs -> 0..PathLen],
         NEW measurements \in [Jobs -> Seq(0..PathLen - 1)],
         born' \in [Jobs -> Nat], Commit(states, lasts, measurements)
  PROVE  StoreType'
<1>1. PathLen \in Nat \ {0}
  BY JobRunnerAssumption
<1>2. <<>> \in Seq(0..PathLen - 1) /\ 0 \in 0..PathLen
  BY <1>1
<1> QED
  BY <1>2 DEF StoreType, Commit

\* An UPDATE of a row leaves the store well typed.
LEMMA UpdateRowType ==
  ASSUME TypeInv, NEW j, NEW state \in States, NEW last \in 0..PathLen,
         UpdateRow(j, state, last)
  PROVE  StoreType'
<1>1. StoreType
  BY TypedStore
<1>2. /\ [rowState EXCEPT ![j] = state] \in [Jobs -> States \cup {"absent"}]
      /\ [rowLast EXCEPT ![j] = last] \in [Jobs -> 0..PathLen]
  BY <1>1 DEF StoreType
<1> QED
  BY <1>1, <1>2, CommitType DEF UpdateRow, StoreType

\* What an UPDATE makes of the row: the row is there and is set, or nobody sees it
\* and there is none afterwards.
LEMMA UpdateRowCases ==
  ASSUME TypeInv, NEW j \in Jobs, NEW state, NEW last, UpdateRow(j, state, last)
  PROVE  \/ /\ rowState[j] # "absent"
            /\ rowState'[j] = state /\ rowLast'[j] = last /\ rowMeas'[j] = rowMeas[j]
         \/ /\ rowState[j] = "absent" /\ rowState'[j] = "absent"
            /\ rowLast'[j] \in {0, rowLast[j]} /\ rowMeas'[j] \in {<<>>, rowMeas[j]}
         \/ rowState'[j] = "absent" /\ rowLast'[j] = 0 /\ rowMeas'[j] = <<>>
<1>1. StoreType
  BY TypedStore
<1> QED
  BY <1>1 DEF StoreType, UpdateRow, Commit, Present

\* A DELETE leaves the store well typed.
LEMMA DeleteRowsType ==
  ASSUME TypeInv, NEW S, DeleteRows(S)
  PROVE  StoreType'
<1>1. PathLen \in Nat \ {0} /\ StoreType
  BY JobRunnerAssumption, TypedStore
<1>2. <<>> \in Seq(0..PathLen - 1) /\ 0 \in 0..PathLen
  BY <1>1
<1>3. /\ [j \in Jobs |-> IF j \in S THEN "absent" ELSE rowState[j]]
           \in [Jobs -> States \cup {"absent"}]
      /\ [j \in Jobs |-> IF j \in S THEN 0 ELSE rowLast[j]] \in [Jobs -> 0..PathLen]
      /\ [j \in Jobs |-> IF j \in S THEN <<>> ELSE rowMeas[j]]
           \in [Jobs -> Seq(0..PathLen - 1)]
      /\ born' \in [Jobs -> Nat]
  BY <1>1, <1>2 DEF StoreType, DeleteRows
<1> QED
  BY <1>3, CommitType DEF DeleteRows

\* So does a commit of somebody else's deletions only, and a write that raises.
LEMMA OpenDeletionsType ==
  ASSUME TypeInv, UNCHANGED born, Commit(rowState, rowLast, rowMeas) \/ FailWrite
  PROVE  StoreType'
BY TypedStore, CommitType DEF StoreType, FailWrite, rows

-----------------------------------------------------------------------------
(* Type correctness.                                                       *)

LEMMA TypeInit == Init => TypeInv
<1> SUFFICES ASSUME Init PROVE TypeInv
  OBVIOUS
<1>1. PathLen \in Nat \ {0} /\ MaxCrashes \in Nat
  BY JobRunnerAssumption
<1>2. <<>> \in Seq(0..PathLen - 1)
  OBVIOUS
<1>3. 0 \in 0..PathLen /\ 0 \in 0..MaxCrashes /\ 0 \in Nat
  BY <1>1
<1>4. TypeOK
  BY <1>2, <1>3 DEF Init, TypeOK, States, ReqSteps, PcSteps, StopSteps
<1>5. IndexInBody
  BY DEF Init, IndexInBody, BodySteps
<1> QED
  BY <1>4, <1>5 DEF TypeInv

\* What an action that leaves the threads, the clients and the stops alone keeps.
LEMMA TypeStutter == TypeInv /\ UNCHANGED vars => TypeInv'
BY DEF TypeInv, TypeOK, IndexInBody, vars, store, rows, service, request, thread, prune, stop

LEMMA TypeRequest ==
  ASSUME TypeInv, NEW c \in Clients, Request(c) \/ PublishStarted(c)
  PROVE  TypeInv'
<1> USE DEF TypeInv, TypeOK, IndexInBody, BodySteps, GoReq, ReqSteps,
            store, rows, service, request, thread, prune, stop
<1>1. CASE LookupJob(c)
  BY <1>1 DEF LookupJob
<1>2. CASE SaveJobImage(c)
  <2>1. CASE UNCHANGED store
    BY <1>2, <2>1 DEF SaveJobImage
  <2>2. CASE UNCHANGED born /\ (Commit(rowState, rowLast, rowMeas) \/ FailWrite)
    <3>1. StoreType'
      BY <2>2, OpenDeletionsType
    <3> QED
      BY <1>2, <3>1 DEF SaveJobImage, StoreType
  <2> QED
    BY <1>2, <2>1, <2>2 DEF SaveJobImage, FailWrite
<1>3. CASE CheckSlot(c)
  BY <1>3 DEF CheckSlot
<1>4. CASE ClearStop(c)
  BY <1>4 DEF ClearStop
<1>5. CASE ClaimSlot(c)
  BY <1>5 DEF ClaimSlot
<1>6. CASE PersistRunning(c)
  <2>1. StoreType'
    <3>1. "running" \in States /\ 0 \in 0..PathLen
      BY JobRunnerAssumption DEF States
    <3> QED
      BY <1>6, <3>1, UpdateRowType, OpenDeletionsType DEF PersistRunning, FailWrite
  <2> QED
    BY <1>6, <2>1 DEF PersistRunning, StoreType
<1>7. CASE SpawnWorker(c)
  BY <1>7 DEF SpawnWorker, PcSteps, LoopSteps, States
<1>8. CASE PublishStarted(c)
  BY <1>8 DEF PublishStarted
<1> QED
  BY <1>1, <1>3, <1>4, <1>5, <1>6, <1>7, <1>8, <1>2 DEF Request

LEMMA PcStepsElements ==
  /\ "none" \in PcSteps
  /\ "done" \in PcSteps
  /\ "dead" \in PcSteps
  /\ "check" \in PcSteps
  /\ "announce" \in PcSteps
  /\ "move" \in PcSteps
  /\ "arrive" \in PcSteps
  /\ "scan" \in PcSteps
  /\ "save" \in PcSteps
  /\ "progress" \in PcSteps
  /\ "report" \in PcSteps
  /\ "return" \in PcSteps
  /\ "returning" \in PcSteps
  /\ "release" \in PcSteps
  /\ "resetstop" \in PcSteps
  /\ "final" \in PcSteps
  /\ "count" \in PcSteps
  /\ "select" \in PcSteps
  /\ "delete" \in PcSteps
  /\ "commit" \in PcSteps
  /\ "publish" \in PcSteps
BY DEF PcSteps, LoopSteps, ExitSteps

\* A step of a thread moves its own program counter and no other.
LEMMA WorkerMovesItself ==
  ASSUME NEW j \in Jobs, Worker(j) \/ WorkerPublish(j)
  PROVE  \E step \in PcSteps : pc' = [pc EXCEPT ![j] = step]
<1> USE PcStepsElements DEF Go, Fail
<1>1. CASE CheckStop(j)
  BY <1>1 DEF CheckStop
<1>2. CASE MoveArm(j)
  BY <1>2 DEF MoveArm
<1>3. CASE AwaitArrival(j)
  BY <1>3 DEF AwaitArrival
<1>4. CASE ScanWaypoint(j)
  BY <1>4 DEF ScanWaypoint
<1>5. CASE SaveMeasurement(j)
  BY <1>5 DEF SaveMeasurement
<1>6. CASE PersistProgress(j)
  BY <1>6 DEF PersistProgress
<1>7. CASE ReturnMove(j)
  BY <1>7 DEF ReturnMove
<1>8. CASE AwaitReturn(j)
  BY <1>8 DEF AwaitReturn
<1>9. CASE ReleaseSlot(j)
  BY <1>9 DEF ReleaseSlot
<1>10. CASE ResetStop(j)
  BY <1>10 DEF ResetStop
<1>11. CASE PersistFinal(j)
  BY <1>11 DEF PersistFinal
<1>12. CASE PruneCount(j)
  BY <1>12 DEF PruneCount
<1>13. CASE PruneSelect(j)
  BY <1>13 DEF PruneSelect
<1>14. CASE PruneDelete(j)
  BY <1>14 DEF PruneDelete
<1>15. CASE PruneCommit(j)
  BY <1>15 DEF PruneCommit
<1>16. CASE PruneAtomically(j)
  BY <1>16 DEF PruneAtomically
<1>17. CASE PublishWaypointStarted(j)
  BY <1>17 DEF PublishWaypointStarted
<1>18. CASE PublishWaypointCompleted(j)
  BY <1>18 DEF PublishWaypointCompleted
<1>19. CASE PublishTerminal(j)
  BY <1>19 DEF PublishTerminal
<1> QED
  BY <1>1, <1>2, <1>3, <1>4, <1>5, <1>6, <1>7, <1>8, <1>9, <1>10, <1>11, <1>12, <1>13, <1>14,
     <1>15, <1>16, <1>17, <1>18, <1>19 DEF Worker, WorkerPublish

\* ... and sets the state of its own job only.
LEMMA WorkerSetsItsState ==
  ASSUME NEW j \in Jobs, Worker(j) \/ WorkerPublish(j)
  PROVE  \/ UNCHANGED jobState
         \/ \E state \in Terminal : jobState' = [jobState EXCEPT ![j] = state]
<1> USE DEF Go, Fail, Terminal, thread
<1>1. CASE CheckStop(j)
  BY <1>1 DEF CheckStop
<1>2. CASE MoveArm(j)
  BY <1>2 DEF MoveArm
<1>3. CASE AwaitArrival(j)
  BY <1>3 DEF AwaitArrival
<1>4. CASE ScanWaypoint(j)
  BY <1>4 DEF ScanWaypoint
<1>5. CASE SaveMeasurement(j)
  BY <1>5 DEF SaveMeasurement
<1>6. CASE PersistProgress(j)
  BY <1>6 DEF PersistProgress
<1>7. CASE ReturnMove(j)
  BY <1>7 DEF ReturnMove
<1>8. CASE AwaitReturn(j)
  BY <1>8 DEF AwaitReturn
<1>9. CASE ReleaseSlot(j)
  BY <1>9 DEF ReleaseSlot
<1>10. CASE ResetStop(j)
  BY <1>10 DEF ResetStop
<1>11. CASE PersistFinal(j)
  BY <1>11 DEF PersistFinal
<1>12. CASE PruneCount(j)
  BY <1>12 DEF PruneCount
<1>13. CASE PruneSelect(j)
  BY <1>13 DEF PruneSelect
<1>14. CASE PruneDelete(j)
  BY <1>14 DEF PruneDelete
<1>15. CASE PruneCommit(j)
  BY <1>15 DEF PruneCommit
<1>16. CASE PruneAtomically(j)
  BY <1>16 DEF PruneAtomically
<1>17. CASE PublishWaypointStarted(j)
  BY <1>17 DEF PublishWaypointStarted
<1>18. CASE PublishWaypointCompleted(j)
  BY <1>18 DEF PublishWaypointCompleted
<1>19. CASE PublishTerminal(j)
  BY <1>19 DEF PublishTerminal
<1> QED
  BY <1>1, <1>2, <1>3, <1>4, <1>5, <1>6, <1>7, <1>8, <1>9, <1>10, <1>11, <1>12, <1>13, <1>14,
     <1>15, <1>16, <1>17, <1>18, <1>19 DEF Worker, WorkerPublish

LEMMA TypeWorker ==
  ASSUME TypeInv, NEW j \in Jobs, Worker(j) \/ WorkerPublish(j)
  PROVE  TypeInv'
<1>1. pc' \in [Jobs -> PcSteps]
  <2>1. pc \in [Jobs -> PcSteps]
    BY DEF TypeInv, TypeOK
  <2> QED
    BY <2>1, WorkerMovesItself
<1>2. jobState' \in [Jobs -> States]
  <2>1. jobState \in [Jobs -> States] /\ Terminal \subseteq States
    BY DEF TypeInv, TypeOK, States
  <2> QED
    BY <2>1, WorkerSetsItsState
<1>3. pc[j] \in BodySteps => index[j] \in 0..PathLen - 1 /\ index[j] + 1 \in 0..PathLen
  <2>1. index[j] \in 0..PathLen /\ (pc[j] \in BodySteps => index[j] < PathLen)
    BY DEF TypeInv, TypeOK, IndexInBody
  <2>2. PathLen \in Nat
    BY JobRunnerAssumption
  <2> QED
    BY <2>1, <2>2
<1> USE <1>1, <1>2 DEF TypeInv, TypeOK, IndexInBody, BodySteps, Go, Fail,
            store, rows, service, request, thread, prune, stop
<1>4. CASE CheckStop(j)
  BY <1>4 DEF CheckStop
<1>5. CASE MoveArm(j)
  BY <1>5 DEF MoveArm
<1>6. CASE AwaitArrival(j)
  BY <1>6 DEF AwaitArrival
<1>7. CASE ScanWaypoint(j)
  BY <1>7 DEF ScanWaypoint
<1>8. CASE SaveMeasurement(j)
  <2>1. pc[j] = "save"
    BY <1>8 DEF SaveMeasurement
  <2>2. index[j] \in 0..PathLen - 1 /\ index[j] + 1 \in 0..PathLen
    BY <1>3, <2>1
  <2>3. jobLast' \in [Jobs -> 0..PathLen]
    BY <1>8, <2>2 DEF SaveMeasurement
  <2>4. StoreType'
    <3>1. CASE Commit(rowState, rowLast, [rowMeas EXCEPT ![j] = Append(@, index[j])]) /\ UNCHANGED born
      <4>1. Append(rowMeas[j], index[j]) \in Seq(0..PathLen - 1)
        BY <2>2
      <4>2. [rowMeas EXCEPT ![j] = Append(@, index[j])] \in [Jobs -> Seq(0..PathLen - 1)]
        BY <4>1
      <4> QED
        BY <3>1, <4>2, CommitType
    <3>2. CASE UNCHANGED store
      BY <3>2, TypedStore DEF StoreType, rows
    <3>3. CASE FailWrite
      BY <3>3, OpenDeletionsType DEF FailWrite
    <3> QED
      BY <1>8, <3>1, <3>2, <3>3 DEF SaveMeasurement
  <2>5. /\ pc'[j] \in BodySteps => pc[j] \in BodySteps
        /\ UNCHANGED index
    BY <1>8 DEF SaveMeasurement
  <2> QED
    BY <1>8, <2>3, <2>4, <2>5, WorkerMovesItself DEF SaveMeasurement, Worker, StoreType
<1>9. CASE PersistProgress(j)
  <2>1. StoreType'
    BY <1>9, UpdateRowType, OpenDeletionsType DEF PersistProgress, FailWrite
  <2> QED
    BY <1>9, <2>1 DEF PersistProgress, StoreType
<1>10. CASE ReturnMove(j)
  BY <1>10 DEF ReturnMove
<1>11. CASE AwaitReturn(j)
  BY <1>11 DEF AwaitReturn
<1>12. CASE ReleaseSlot(j)
  BY <1>12 DEF ReleaseSlot
<1>13. CASE ResetStop(j)
  BY <1>13 DEF ResetStop
<1>14. CASE PersistFinal(j)
  <2>1. StoreType'
    BY <1>14, UpdateRowType, OpenDeletionsType DEF PersistFinal, FailWrite
  <2> QED
    BY <1>14, <2>1 DEF PersistFinal, StoreType
<1>15. CASE PruneCount(j)
  <2>1. excess' \in [Jobs -> Nat]
    BY <1>15, ExcessIsNat DEF PruneCount
  <2> QED
    BY <1>15, <2>1 DEF PruneCount
<1>16. CASE PruneSelect(j)
  <2>1. excess' \in [Jobs -> Nat] /\ victims' \in [Jobs -> SUBSET Jobs]
    BY <1>16, OldestAreJobs DEF PruneSelect
  <2> QED
    BY <1>16, <2>1 DEF PruneSelect
<1>17. CASE PruneDelete(j)
  <2>1. StoreType'
    <3>1. CASE FailWrite
      BY <3>1, OpenDeletionsType DEF FailWrite
    <3>2. CASE pruned' = pruned \cup (victims[j] \cap Present) /\ UNCHANGED <<rows, born>>
      <4>1. ForeignKeys /\ victims[j] \cap Present \subseteq Jobs
        BY <1>17 DEF PruneDelete, Present
      <4>2. StoreType
        BY TypedStore
      <4> QED
        BY <3>2, <4>1, <4>2 DEF StoreType, rows
    <3> QED
      BY <1>17, <3>1, <3>2 DEF PruneDelete
  <2> QED
    BY <1>17, <2>1 DEF PruneDelete, StoreType
<1>18. CASE PruneCommit(j)
  <2>1. StoreType'
    BY <1>18, OpenDeletionsType DEF PruneCommit, FailWrite
  <2> QED
    BY <1>18, <2>1 DEF PruneCommit, StoreType
<1>19. CASE PruneAtomically(j)
  <2>1. StoreType'
    BY <1>19, DeleteRowsType DEF PruneAtomically
  <2> QED
    BY <1>19, <2>1 DEF PruneAtomically, StoreType
<1>20. CASE PublishWaypointStarted(j)
  BY <1>20 DEF PublishWaypointStarted
<1>21. CASE PublishWaypointCompleted(j)
  <2>1. pc[j] = "report"
    BY <1>21 DEF PublishWaypointCompleted
  <2>2. index[j] + 1 \in 0..PathLen
    BY <1>3, <2>1
  <2>3. index' \in [Jobs -> 0..PathLen]
    BY <1>21, <2>2 DEF PublishWaypointCompleted
  <2>4. pc'[j] = "check" /\ \A k \in Jobs \ {j} : pc'[k] = pc[k] /\ index'[k] = index[k]
    BY <1>21 DEF PublishWaypointCompleted
  <2> QED
    BY <1>21, <2>3, <2>4 DEF PublishWaypointCompleted
<1>22. CASE PublishTerminal(j)
  BY <1>22 DEF PublishTerminal
<1> QED
  BY <1>4, <1>5, <1>6, <1>7, <1>8, <1>9, <1>10, <1>11, <1>12, <1>13, <1>14, <1>15, <1>16,
     <1>17, <1>19, <1>20, <1>21, <1>22, <1>18 DEF Worker, WorkerPublish

\* Stop calls and the requests that touch the same state.
LEMMA TypeOutside ==
  ASSUME TypeInv, Outside \/ (\E s \in Stoppers : StopCall(s))
  PROVE  TypeInv'
<1> USE DEF TypeInv, TypeOK, IndexInBody, BodySteps,
            store, rows, service, request, thread, prune, stop
<1>1. ASSUME NEW c \in Clients, NEW j \in Jobs, SubmitJob(c, j) PROVE TypeInv'
  <2>1. born' \in [Jobs -> Nat]
    BY <1>1, RankIsPositive DEF SubmitJob
  <2>2. StoreType'
    <3>1. [rowState EXCEPT ![j] = "created"] \in [Jobs -> States \cup {"absent"}]
      BY DEF States
    <3> QED
      BY <1>1, <2>1, <3>1, CommitType DEF SubmitJob
  <2>3. reqPc' \in [Clients -> ReqSteps]
    BY <1>1 DEF SubmitJob, GoReq, ReqSteps
  <2> QED
    BY <1>1, <2>2, <2>3 DEF SubmitJob, StoreType
<1>2. ASSUME NEW s \in Stoppers, StopCheck(s) \/ StopCall(s) PROVE TypeInv'
  <2>1. stopPc' \in [Stoppers -> StopSteps]
    BY <1>2 DEF StopCheck, StopCall, StopFlag, StopRobot, StopSteps
  <2>2. CASE StopCheck(s)
    BY <2>1, <2>2 DEF StopCheck
  <2>3. CASE StopFlag(s)
    BY <2>1, <2>3 DEF StopFlag
  <2>4. CASE StopRobot(s)
    BY <2>1, <2>4 DEF StopRobot
  <2> QED
    BY <1>2, <2>2, <2>3, <2>4 DEF StopCall
<1>3. ASSUME NEW j \in Jobs, DeleteJob(j) PROVE TypeInv'
  <2>1. DeleteRows({j})
    BY <1>3 DEF DeleteJob
  <2>2. StoreType'
    BY <2>1, DeleteRowsType
  <2> QED
    BY <1>3, <2>2 DEF DeleteJob, StoreType
<1>4. CASE ManualMove
  BY <1>4 DEF ManualMove
<1> QED
  BY <1>1, <1>2, <1>3, <1>4 DEF Outside

LEMMA TypeCrash == ASSUME TypeInv, Crash PROVE TypeInv'
<1> USE DEF TypeInv, TypeOK
<1>1. StoreType'
  <2>1. CASE pruned' = {} /\ UNCHANGED <<rows, born>>
    BY <2>1 DEF StoreType, rows
  <2>2. CASE DeleteRows(Jobs)
    BY <2>2, DeleteRowsType
  <2> QED
    BY <2>1, <2>2 DEF Crash
<1>2. reqPc' \in [Clients -> ReqSteps] /\ stopPc' \in [Stoppers -> StopSteps]
  BY DEF Crash, ReqSteps, StopSteps
<1>3. pc' \in [Jobs -> PcSteps]
  BY PcStepsElements DEF Crash
<1>4. crashes' \in 0..MaxCrashes
  BY JobRunnerAssumption DEF Crash
<1>5. excess' \in [Jobs -> Nat] /\ victims' \in [Jobs -> SUBSET Jobs]
  BY DEF Crash
<1>6. IndexInBody'
  BY DEF Crash, IndexInBody, BodySteps
<1> QED
  BY <1>1, <1>2, <1>3, <1>4, <1>5, <1>6 DEF Crash, StoreType

LEMMA TypeStep == TypeInv /\ [Next]_vars => TypeInv'
<1> SUFFICES ASSUME TypeInv, [Next]_vars PROVE TypeInv'
  OBVIOUS
<1>1. CASE Quiescent \/ UNCHANGED vars
  BY <1>1, TypeStutter DEF Quiescent
<1> QED
  BY <1>1, TypeRequest, TypeWorker, TypeOutside, TypeCrash DEF Next

\* Every variable keeps its type: in particular the index of a waypoint never
\* runs past the path, and progress never exceeds the number of waypoints.
THEOREM TypeCorrect == Spec => []TypeOK
<1>1. TypeInv => TypeOK
  BY DEF TypeInv
<1> QED
  BY TypeInit, TypeStep, <1>1, PTL DEF Spec

-----------------------------------------------------------------------------
(* The life of a request, whatever other requests do.                      *)

LEMMA OwnsInit == Init => RequestOwnsJob
BY DEF Init, RequestOwnsJob

LEMMA OwnsRequest ==
  ASSUME TypeInv, RequestOwnsJob, NEW c \in Clients, Request(c) \/ PublishStarted(c)
  PROVE  RequestOwnsJob'
<1>1. pc \in [Jobs -> PcSteps] /\ reqPc \in [Clients -> ReqSteps]
  BY DEF TypeInv, TypeOK
<1> USE <1>1 DEF RequestOwnsJob, GoReq, UpdateRow, Commit, FailWrite, store, rows, service, request, thread
<1>2. CASE SaveJobImage(c)
  BY <1>2 DEF SaveJobImage, FailWrite
<1>3. CASE LookupJob(c)
  BY <1>3 DEF LookupJob
<1>4. CASE CheckSlot(c)
  BY <1>4 DEF CheckSlot
<1>5. CASE ClearStop(c)
  BY <1>5 DEF ClearStop
<1>6. CASE ClaimSlot(c)
  BY <1>6 DEF ClaimSlot
<1>7. CASE PersistRunning(c)
  BY <1>7 DEF PersistRunning, FailWrite
<1>8. CASE SpawnWorker(c)
  BY <1>8 DEF SpawnWorker
<1>9. CASE PublishStarted(c)
  BY <1>9 DEF PublishStarted
<1> QED
  BY <1>2, <1>3, <1>4, <1>5, <1>6, <1>7, <1>8, <1>9 DEF Request

\* What a step of a thread has to do with the slot: it exists already, is in the
\* loop only if it was there before, and gives back only a slot it holds.
LEMMA WorkerAndSlot ==
  ASSUME TypeInv, NEW j \in Jobs, Worker(j) \/ WorkerPublish(j)
  PROVE  /\ pc[j] # "none" /\ pc'[j] # "none"
         /\ pc'[j] \in LoopSteps \cup {"release"} => Holding(j) /\ running' = running
         /\ running' = running \/ (Holding(j) /\ running' = NoJob)
         /\ reqPc' = reqPc /\ reqJob' = reqJob /\ born' = born
<1>1. pc \in [Jobs -> PcSteps]
  BY DEF TypeInv, TypeOK
<1> USE <1>1 DEF Go, Fail, Holding, LoopSteps, UpdateRow, DeleteRows, Commit, FailWrite,
            store, rows, service, request, thread, prune
<1>2. CASE CheckStop(j)
  BY <1>2 DEF CheckStop
<1>3. CASE MoveArm(j)
  BY <1>3 DEF MoveArm
<1>4. CASE AwaitArrival(j)
  BY <1>4 DEF AwaitArrival
<1>5. CASE ScanWaypoint(j)
  BY <1>5 DEF ScanWaypoint
<1>6. CASE SaveMeasurement(j)
  BY <1>6 DEF SaveMeasurement
<1>7. CASE PersistProgress(j)
  BY <1>7 DEF PersistProgress
<1>8. CASE ReturnMove(j)
  BY <1>8 DEF ReturnMove
<1>9. CASE AwaitReturn(j)
  BY <1>9 DEF AwaitReturn
<1>10. CASE ReleaseSlot(j)
  BY <1>10 DEF ReleaseSlot
<1>11. CASE ResetStop(j)
  BY <1>11 DEF ResetStop
<1>12. CASE PersistFinal(j)
  BY <1>12 DEF PersistFinal
<1>13. CASE PruneCount(j)
  BY <1>13 DEF PruneCount
<1>14. CASE PruneSelect(j)
  BY <1>14 DEF PruneSelect
<1>15. CASE PruneDelete(j)
  BY <1>15 DEF PruneDelete
<1>16. CASE PruneCommit(j)
  BY <1>16 DEF PruneCommit
<1>17. CASE PruneAtomically(j)
  BY <1>17 DEF PruneAtomically
<1>18. CASE PublishWaypointStarted(j)
  BY <1>18 DEF PublishWaypointStarted
<1>19. CASE PublishWaypointCompleted(j)
  BY <1>19 DEF PublishWaypointCompleted
<1>20. CASE PublishTerminal(j)
  BY <1>20 DEF PublishTerminal
<1> QED
  BY <1>2, <1>3, <1>4, <1>5, <1>6, <1>7, <1>8, <1>9, <1>10, <1>11, <1>12, <1>13, <1>14, <1>15,
     <1>16, <1>17, <1>18, <1>19, <1>20 DEF Worker, WorkerPublish

LEMMA OwnsStep == TypeInv /\ RequestOwnsJob /\ [Next]_vars => RequestOwnsJob'
<1> SUFFICES ASSUME TypeInv, RequestOwnsJob, [Next]_vars PROVE RequestOwnsJob'
  OBVIOUS
<1>1. /\ pc \in [Jobs -> PcSteps] /\ born \in [Jobs -> Nat]
      /\ reqPc \in [Clients -> ReqSteps] /\ reqJob \in [Clients -> Jobs \cup {NoJob}]
  BY DEF TypeInv, TypeOK
<1>2. ASSUME NEW j \in Jobs, Worker(j) \/ WorkerPublish(j) PROVE RequestOwnsJob'
  <2>1. \A k \in Jobs \ {j} : pc'[k] = pc[k]
    BY <1>1, <1>2, WorkerMovesItself
  <2> QED
    BY <1>1, <1>2, <2>1, WorkerAndSlot DEF RequestOwnsJob
<1>3. ASSUME NEW c \in Clients, NEW j \in Jobs, SubmitJob(c, j) PROVE RequestOwnsJob'
  <2>1. born'[j] # 0 /\ \A k \in Jobs \ {j} : born'[k] = born[k]
    BY <1>1, <1>3, RankIsPositive DEF SubmitJob
  <2>2. /\ reqJob'[c] = j /\ reqPc[c] = "idle" /\ born[j] = 0 /\ pc' = pc
        /\ \A d \in Clients \ {c} : reqPc'[d] = reqPc[d] /\ reqJob'[d] = reqJob[d]
    BY <1>1, <1>3 DEF SubmitJob, GoReq, thread
  <2> QED
    BY <2>1, <2>2 DEF RequestOwnsJob
<1>4. CASE Crash
  BY <1>1, <1>4 DEF Crash, DeleteRows, Commit, RequestOwnsJob, store, rows
<1>5. ASSUME NEW j \in Jobs, DeleteJob(j) PROVE RequestOwnsJob'
  BY <1>5 DEF DeleteJob, DeleteRows, Commit, RequestOwnsJob, request, thread
<1>6. CASE ManualMove \/ Quiescent \/ UNCHANGED vars
  BY <1>6 DEF ManualMove, Quiescent, vars, RequestOwnsJob, store, rows, request, thread
<1>7. ASSUME NEW s \in Stoppers, StopCheck(s) \/ StopCall(s) PROVE RequestOwnsJob'
  BY <1>7 DEF StopCheck, StopCall, StopFlag, StopRobot, RequestOwnsJob, store, rows, request,
     thread
<1> QED
  BY <1>2, <1>3, <1>4, <1>5, <1>6, <1>7, OwnsRequest DEF Next, Outside

-----------------------------------------------------------------------------
(* One driver at a time.                                                   *)

\* The steps of a request, when requests are serialised.
LEMMA SlotRequest ==
  ASSUME SlotIInv, \A a, b \in Clients : a = b,
         NEW c \in Clients, Request(c) \/ PublishStarted(c)
  PROVE  SlotInv'
<1>1. /\ pc \in [Jobs -> PcSteps] /\ reqPc \in [Clients -> ReqSteps]
      /\ reqPc[c] # "idle" => reqJob[c] \in Jobs
      /\ NoJob \notin Jobs
  BY JobRunnerAssumption DEF SlotIInv, TypeInv, TypeOK, RequestOwnsJob
<1> USE <1>1 DEF SlotIInv, RequestOwnsJob, SlotInv, Holding, LoopSteps, GoReq, UpdateRow, Commit, FailWrite,
            store, rows, service, request, thread, prune
<1>2. CASE SaveJobImage(c)
  BY <1>2 DEF SaveJobImage, FailWrite
<1>3. CASE LookupJob(c)
  BY <1>3 DEF LookupJob
<1>4. CASE CheckSlot(c)
  BY <1>4 DEF CheckSlot
<1>5. CASE ClearStop(c)
  BY <1>5 DEF ClearStop
<1>6. CASE ClaimSlot(c)
  BY <1>6 DEF ClaimSlot
<1>7. CASE PersistRunning(c)
  BY <1>7 DEF PersistRunning, FailWrite
<1>8. CASE SpawnWorker(c)
  BY <1>8 DEF SpawnWorker
<1>9. CASE PublishStarted(c)
  BY <1>9 DEF PublishStarted
<1> QED
  BY <1>2, <1>3, <1>4, <1>5, <1>6, <1>7, <1>8, <1>9 DEF Request

\* Every other step.
LEMMA SlotOther ==
  ASSUME SlotIInv, TypeInv', [Next]_vars,
         \A c \in Clients : ~(Request(c) \/ PublishStarted(c))
  PROVE  SlotInv'
<1>1. /\ pc \in [Jobs -> PcSteps] /\ reqPc \in [Clients -> ReqSteps]
      /\ NoJob \notin Jobs
  BY JobRunnerAssumption DEF SlotIInv, TypeInv, TypeOK
<1> USE DEF SlotIInv, SlotInv, Holding, service, request, thread
<1>2. ASSUME NEW j \in Jobs, Worker(j) \/ WorkerPublish(j) PROVE SlotInv'
  <2>1. \A k \in Jobs \ {j} : pc'[k] = pc[k]
    BY <1>1, <1>2, WorkerMovesItself
  <2> QED
    BY <1>1, <1>2, <2>1, WorkerAndSlot DEF RequestOwnsJob
<1>3. ASSUME NEW c \in Clients, NEW j \in Jobs, SubmitJob(c, j) PROVE SlotInv'
  BY <1>1, <1>3 DEF SubmitJob, GoReq
<1>4. CASE Crash
  BY <1>4 DEF Crash, LoopSteps
<1>5. ASSUME NEW j \in Jobs, DeleteJob(j) PROVE SlotInv'
  BY <1>5 DEF DeleteJob
<1>6. CASE ManualMove \/ Quiescent \/ UNCHANGED vars
  BY <1>6 DEF ManualMove, Quiescent, vars
<1>7. ASSUME NEW s \in Stoppers, StopCheck(s) \/ StopCall(s) PROVE SlotInv'
  BY <1>7 DEF StopCheck, StopCall, StopFlag, StopRobot
<1> QED
  BY <1>2, <1>3, <1>4, <1>5, <1>6, <1>7 DEF Next, Outside

\* When posts are serialised, the slot is exclusive: two threads never drive the
\* robot, and the thread that does is the one _running_job_id names, whatever
\* stop calls, deletions, failing writes and restarts happen in between.
THEOREM OneDriverWhenSerialised ==
  ASSUME \A a, b \in Clients : a = b
  PROVE  Spec => [](OneDriver /\ DriverHoldsSlot)
<1>1. Init => SlotIInv
  BY TypeInit, OwnsInit DEF Init, SlotIInv, SlotInv, Holding, LoopSteps
<1>2. SlotIInv /\ [Next]_vars => SlotIInv'
  BY TypeStep, OwnsStep, SlotRequest, SlotOther DEF SlotIInv
<1>3. SlotIInv => OneDriver /\ DriverHoldsSlot
  BY DEF SlotIInv, SlotInv, Holding, OneDriver, DriverHoldsSlot, Driving
<1> QED
  BY <1>1, <1>2, <1>3, PTL DEF Spec

-----------------------------------------------------------------------------
(* A completed job was measured.                                           *)

\* The measurement rows of j are those of its first n waypoints, in order.
Measured(j, n) ==
  Len(rowMeas[j]) = n /\ \A i \in 1..n : rowMeas[j][i] = i - 1

\* How far a job in the loop has been measured.
Counted(j) == IF pc[j] \in {"progress", "report"} THEN index[j] + 1 ELSE index[j]

MeasuredJob(j) ==
  /\ pc[j] = "none" => index[j] = 0 /\ jobState[j] = "created" /\ rowMeas[j] = <<>>
  /\ Driving(j) => jobState[j] = "running"
  /\ Driving(j) /\ rowState[j] # "absent" => Measured(j, Counted(j))
  /\ pc[j] \in {"return", "returning"} => index[j] = PathLen
  /\ jobState[j] = "completed" /\ rowState[j] # "absent" => Measured(j, PathLen)
  /\ rowState[j] = "completed" => jobState[j] = "completed"

MeasuredInv == \A j \in Jobs : MeasuredJob(j)

MeasuredIInv == TypeInv /\ RequestOwnsJob /\ MeasuredInv

\* The rows of k are left alone, or deleted together.
KeptOrDeleted(k) ==
  \/ rowState'[k] = rowState[k] /\ rowMeas'[k] = rowMeas[k]
  \/ rowState'[k] = "absent" /\ rowMeas'[k] = <<>>

LEMMA MeasuredFrame ==
  ASSUME NEW k \in Jobs, MeasuredJob(k), KeptOrDeleted(k),
         pc'[k] = pc[k], index'[k] = index[k], jobState'[k] = jobState[k]
  PROVE  MeasuredJob(k)'
BY DEF MeasuredJob, KeptOrDeleted, Measured, Counted, Driving

\* The thread of j writes nothing of another job k, except that it may prune it.
LEMMA WorkerFrame ==
  ASSUME TypeInv, NEW j \in Jobs, Worker(j) \/ WorkerPublish(j), NEW k \in Jobs \ {j}
  PROVE  /\ pc'[k] = pc[k] /\ index'[k] = index[k] /\ jobState'[k] = jobState[k]
         /\ KeptOrDeleted(k)
<1>1. /\ pc \in [Jobs -> PcSteps] /\ index \in [Jobs -> 0..PathLen]
      /\ jobState \in [Jobs -> States]
      /\ rowState \in [Jobs -> States \cup {"absent"}]
      /\ rowMeas \in [Jobs -> Seq(0..PathLen - 1)]
  BY DEF TypeInv, TypeOK
<1>2. pc'[k] = pc[k] /\ jobState'[k] = jobState[k]
  BY <1>1, WorkerMovesItself, WorkerSetsItsState
<1> SUFFICES index'[k] = index[k] /\ KeptOrDeleted(k)
  BY <1>2
<1> USE <1>1 DEF KeptOrDeleted, UpdateRow, DeleteRows, Commit, FailWrite, store, rows, thread
<1>3. CASE CheckStop(j)
  BY <1>3 DEF CheckStop
<1>4. CASE MoveArm(j)
  BY <1>4 DEF MoveArm
<1>5. CASE AwaitArrival(j)
  BY <1>5 DEF AwaitArrival
<1>6. CASE ScanWaypoint(j)
  BY <1>6 DEF ScanWaypoint
<1>7. CASE SaveMeasurement(j)
  BY <1>7 DEF SaveMeasurement
<1>8. CASE PersistProgress(j)
  BY <1>8 DEF PersistProgress
<1>9. CASE ReturnMove(j)
  BY <1>9 DEF ReturnMove
<1>10. CASE AwaitReturn(j)
  BY <1>10 DEF AwaitReturn
<1>11. CASE ReleaseSlot(j)
  BY <1>11 DEF ReleaseSlot
<1>12. CASE ResetStop(j)
  BY <1>12 DEF ResetStop
<1>13. CASE PersistFinal(j)
  BY <1>13 DEF PersistFinal
<1>14. CASE PruneCount(j)
  BY <1>14 DEF PruneCount
<1>15. CASE PruneSelect(j)
  BY <1>15 DEF PruneSelect
<1>16. CASE PruneDelete(j)
  BY <1>16 DEF PruneDelete
<1>17. CASE PruneCommit(j)
  BY <1>17 DEF PruneCommit
<1>18. CASE PruneAtomically(j)
  BY <1>18 DEF PruneAtomically
<1>19. CASE PublishWaypointStarted(j)
  BY <1>19 DEF PublishWaypointStarted
<1>20. CASE PublishWaypointCompleted(j)
  BY <1>20 DEF PublishWaypointCompleted
<1>21. CASE PublishTerminal(j)
  BY <1>21 DEF PublishTerminal
<1> QED
  BY <1>3, <1>4, <1>5, <1>6, <1>7, <1>8, <1>9, <1>10, <1>11, <1>12, <1>13, <1>14, <1>15, <1>16,
     <1>17, <1>18, <1>19, <1>20, <1>21 DEF Worker, WorkerPublish

LEMMA MeasuredWorker ==
  ASSUME TypeInv, NEW j \in Jobs, MeasuredJob(j), Worker(j) \/ WorkerPublish(j)
  PROVE  MeasuredJob(j)'
<1>1. /\ pc \in [Jobs -> PcSteps] /\ index \in [Jobs -> 0..PathLen]
      /\ jobState \in [Jobs -> States]
      /\ rowState \in [Jobs -> States \cup {"absent"}]
      /\ rowMeas \in [Jobs -> Seq(0..PathLen - 1)]
      /\ PathLen \in Nat \ {0}
      /\ ForeignKeys \/ pruned = {}
  BY JobRunnerAssumption DEF TypeInv, TypeOK
<1> USE <1>1 DEF MeasuredJob, Measured, Counted, Driving, LoopSteps, Go, Fail,
            store, rows, thread
<1>2. CASE CheckStop(j)
  BY <1>2 DEF CheckStop
<1>3. CASE MoveArm(j)
  BY <1>3 DEF MoveArm
<1>4. CASE AwaitArrival(j)
  BY <1>4 DEF AwaitArrival
<1>5. CASE ScanWaypoint(j)
  BY <1>5 DEF ScanWaypoint
<1>6. CASE SaveMeasurement(j)
  <2>1. CASE Commit(rowState, rowLast, [rowMeas EXCEPT ![j] = Append(@, index[j])])
    <3>1. CASE j \in Present /\ pc'[j] = "progress"
      <4>1. rowMeas'[j] = Append(rowMeas[j], index[j]) /\ rowMeas[j] \in Seq(0..PathLen - 1)
        BY <2>1, <3>1 DEF Commit, Present
      <4>2. Len(rowMeas[j]) = index[j] /\ \A i \in 1..index[j] : rowMeas[j][i] = i - 1
        BY <1>6, <3>1 DEF SaveMeasurement, Present
      <4>3. Len(rowMeas'[j]) = index[j] + 1
        BY <4>1, <4>2
      <4>4. \A i \in 1..index[j] + 1 : rowMeas'[j][i] = i - 1
        BY <4>1, <4>2
      <4>5. /\ pc[j] = "save" /\ index' = index /\ jobState' = jobState
            /\ rowState'[j] = rowState[j]
        BY <1>6, <2>1, <3>1 DEF SaveMeasurement, Commit, Present
      <4> QED
        BY <3>1, <4>3, <4>4, <4>5
    <3>2. CASE j \in pruned
      <4>1. rowState'[j] = "absent"
        BY <2>1, <3>2 DEF Commit
      <4>2. pc'[j] \in {"progress", "release"}  /\ pc[j] = "save" /\ jobState'[j] # "completed"
        BY <1>6 DEF SaveMeasurement
      <4>3. pc'[j] = "progress" => jobState' = jobState
        BY <1>6 DEF SaveMeasurement
      <4> QED
        BY <4>1, <4>2, <4>3
    <3>3. CASE rowState[j] = "absent"
      <4>1. rowState'[j] = "absent"
        BY <2>1, <3>3 DEF Commit
      <4>2. pc'[j] \in {"progress", "release"}  /\ pc[j] = "save" /\ jobState'[j] # "completed"
        BY <1>6 DEF SaveMeasurement
      <4>3. pc'[j] = "progress" => jobState' = jobState
        BY <1>6 DEF SaveMeasurement
      <4> QED
        BY <4>1, <4>2, <4>3
    <3>4. CASE pc'[j] # "progress"
      BY <1>6, <2>1, <3>4 DEF SaveMeasurement, Commit
    <3> QED
      BY <3>1, <3>2, <3>3, <3>4 DEF Present
  <2>2. CASE UNCHANGED rows /\ Fail(j, "save")
    BY <1>6, <2>2 DEF SaveMeasurement
  <2>3. CASE UNCHANGED rows /\ rowState[j] = "absent" /\ Go(j, "save", "progress") /\ UNCHANGED jobState
    BY <1>6, <2>3 DEF SaveMeasurement
  <2> QED
    BY <1>6, <2>1, <2>2, <2>3 DEF SaveMeasurement, FailWrite, Present
<1>7. CASE PersistProgress(j)
  <2>1. CASE UpdateRow(j, jobState[j], jobLast[j])
    BY <1>7, <2>1, UpdateRowCases DEF PersistProgress
  <2>2. CASE FailWrite
    BY <1>7, <2>2 DEF PersistProgress, FailWrite
  <2> QED
    BY <1>7, <2>1, <2>2 DEF PersistProgress
<1>8. CASE ReturnMove(j)
  BY <1>8 DEF ReturnMove
<1>9. CASE AwaitReturn(j)
  BY <1>9 DEF AwaitReturn
<1>10. CASE ReleaseSlot(j)
  BY <1>10 DEF ReleaseSlot
<1>11. CASE ResetStop(j)
  BY <1>11 DEF ResetStop
<1>12. CASE PersistFinal(j)
  <2>1. CASE UpdateRow(j, jobState[j], jobLast[j])
    BY <1>12, <2>1, UpdateRowCases DEF PersistFinal
  <2>2. CASE FailWrite
    BY <1>12, <2>2 DEF PersistFinal, FailWrite
  <2> QED
    BY <1>12, <2>1, <2>2 DEF PersistFinal
<1>13. CASE PruneCount(j)
  BY <1>13 DEF PruneCount
<1>14. CASE PruneSelect(j)
  BY <1>14 DEF PruneSelect
<1>15. CASE PruneDelete(j)
  BY <1>15 DEF PruneDelete, FailWrite
<1>16. CASE PruneCommit(j)
  BY <1>16 DEF PruneCommit, Commit, FailWrite
<1>17. CASE PruneAtomically(j)
  BY <1>17 DEF PruneAtomically, DeleteRows, Commit
<1>18. CASE PublishWaypointStarted(j)
  BY <1>18 DEF PublishWaypointStarted
<1>19. CASE PublishWaypointCompleted(j)
  BY <1>19 DEF PublishWaypointCompleted
<1>20. CASE PublishTerminal(j)
  BY <1>20 DEF PublishTerminal
<1> QED
  BY <1>2, <1>3, <1>4, <1>5, <1>6, <1>7, <1>8, <1>9, <1>10, <1>11, <1>12, <1>13, <1>14, <1>15,
     <1>16, <1>17, <1>18, <1>19, <1>20 DEF Worker, WorkerPublish

LEMMA MeasuredStep == MeasuredIInv /\ [Next]_vars => MeasuredInv'
<1> SUFFICES ASSUME MeasuredIInv, [Next]_vars, NEW j \in Jobs PROVE MeasuredJob(j)'
  BY DEF MeasuredInv
<1>1. /\ pc \in [Jobs -> PcSteps] /\ jobState \in [Jobs -> States]
      /\ rowState \in [Jobs -> States \cup {"absent"}]
      /\ reqPc \in [Clients -> ReqSteps]
      /\ TypeInv /\ RequestOwnsJob /\ MeasuredJob(j)
  BY DEF MeasuredIInv, MeasuredInv, TypeInv, TypeOK
<1>2. ASSUME NEW k \in Jobs, Worker(k) \/ WorkerPublish(k) PROVE MeasuredJob(j)'
  BY <1>1, <1>2, MeasuredWorker, WorkerFrame, MeasuredFrame
<1>3. ASSUME NEW c \in Clients, Request(c) \/ PublishStarted(c) PROVE MeasuredJob(j)'
  <2>1. CASE PersistRunning(c)
    BY <1>1, <2>1 DEF PersistRunning, GoReq, UpdateRow, Commit, FailWrite, Present,
       RequestOwnsJob, MeasuredJob,
                      Measured, Counted, Driving, LoopSteps, store, rows, thread
  <2>2. CASE SpawnWorker(c)
    BY <1>1, <2>2, JobRunnerAssumption
       DEF SpawnWorker, GoReq, RequestOwnsJob, MeasuredJob, Measured, Counted, Driving, LoopSteps, store,
           rows
  <2>3. CASE SaveJobImage(c) \/ LookupJob(c) \/ CheckSlot(c) \/ ClearStop(c) \/ ClaimSlot(c) \/ PublishStarted(c)
    BY <1>1, <2>3, MeasuredFrame
       DEF SaveJobImage, LookupJob, CheckSlot, ClearStop, ClaimSlot, PublishStarted, KeptOrDeleted,
           Commit, FailWrite, store, rows, thread
  <2> QED
    BY <1>3, <2>1, <2>2, <2>3 DEF Request
<1>4. ASSUME NEW c \in Clients, NEW k \in Jobs, SubmitJob(c, k) PROVE MeasuredJob(j)'
  BY <1>1, <1>4 DEF SubmitJob, Commit, RequestOwnsJob, MeasuredJob, Measured, Counted, Driving,
     LoopSteps, thread
<1>5. CASE Crash
  BY <1>1, <1>5 DEF Crash, DeleteRows, Commit, MeasuredJob, Measured, Counted, Driving,
     LoopSteps, store,
                      rows
<1>6. ASSUME NEW k \in Jobs, DeleteJob(k) PROVE MeasuredJob(j)'
  BY <1>1, <1>6, MeasuredFrame DEF DeleteJob, DeleteRows, Commit, KeptOrDeleted, thread
<1>7. CASE ManualMove \/ Quiescent \/ UNCHANGED vars
  BY <1>1, <1>7, MeasuredFrame DEF ManualMove, Quiescent, KeptOrDeleted, vars, store, rows,
     thread
<1>8. ASSUME NEW s \in Stoppers, StopCheck(s) \/ StopCall(s) PROVE MeasuredJob(j)'
  BY <1>1, <1>8, MeasuredFrame
     DEF StopCheck, StopCall, StopFlag, StopRobot, KeptOrDeleted, store, rows, thread
<1> QED
  BY <1>2, <1>3, <1>4, <1>5, <1>6, <1>7, <1>8 DEF Next, Outside

\* A job stored as completed has one measurement for every waypoint, in path
\* order, with any number of users posting, stopping and deleting at any moment,
\* with writes that fail and with restarts.
THEOREM CompletedMeansMeasured == Spec => []CompletedIsMeasured
<1>1. Init => MeasuredIInv
  BY TypeInit, OwnsInit
     DEF Init, MeasuredIInv, MeasuredInv, MeasuredJob, Measured, Counted, Driving, LoopSteps
<1>2. MeasuredIInv /\ [Next]_vars => MeasuredIInv'
  BY TypeStep, OwnsStep, MeasuredStep DEF MeasuredIInv
<1>3. MeasuredIInv => CompletedIsMeasured
  <2> SUFFICES ASSUME MeasuredIInv, NEW j \in Jobs, rowState[j] = "completed"
               PROVE  rowMeas[j] = [i \in 1..PathLen |-> i - 1]
    BY DEF CompletedIsMeasured
  <2>1. rowMeas[j] \in Seq(0..PathLen - 1)
    BY DEF MeasuredIInv, TypeInv, TypeOK
  <2>2. Len(rowMeas[j]) = PathLen /\ \A i \in 1..PathLen : rowMeas[j][i] = i - 1
    BY DEF MeasuredIInv, MeasuredInv, MeasuredJob, Measured
  <2>3. rowMeas[j] \in [1..PathLen -> 0..PathLen - 1]
    BY <2>1, <2>2, LenProperties
  <2> QED
    BY <2>2, <2>3
<1> QED
  BY <1>1, <1>2, <1>3, PTL DEF Spec

-----------------------------------------------------------------------------
(* One stop call, one job.                                                 *)

StoppedJobs  == {j \in Jobs : jobState[j] = "stopped"}
FlaggedStops == {s \in Stoppers : stopPc[s] \in {"halt", "done"}}

\* The flag is up and a thread that drives the robot, or will before run_job clears
\* the flag again, can still see it.
StopPending ==
  /\ stopRequested
  /\ \/ \E j \in Jobs : Driving(j)
     \/ \E c \in Clients : reqPc[c] \in {"claim", "persist", "spawn"}

\* Every stopped job was paid for by a stop call of its own, and so is the next one.
StopInv ==
  IF StopPending THEN Cardinality(StoppedJobs) < Cardinality(FlaggedStops)
                 ELSE Cardinality(StoppedJobs) <= Cardinality(FlaggedStops)

StopIInv == SlotIInv /\ MeasuredInv /\ StopInv

LEMMA StopSetsAreFinite ==
  ASSUME IsFiniteSet(Stoppers)
  PROVE  /\ IsFiniteSet(StoppedJobs) /\ Cardinality(StoppedJobs) \in Nat
         /\ IsFiniteSet(FlaggedStops) /\ Cardinality(FlaggedStops) \in Nat
BY JobRunnerAssumption, FS_Subset, FS_CardinalityType DEF StoppedJobs, FlaggedStops

LEMMA WorkerLeavesCalls ==
  ASSUME NEW j \in Jobs, Worker(j) \/ WorkerPublish(j)
  PROVE  UNCHANGED <<reqPc, reqJob, stopPc>>
BY DEF Worker, WorkerPublish, CheckStop, MoveArm, AwaitArrival, ScanWaypoint, SaveMeasurement,
       PersistProgress, ReturnMove, AwaitReturn, ReleaseSlot, ResetStop, PersistFinal, PruneCount,
       PruneSelect, PruneDelete, PruneCommit, PruneAtomically, PublishWaypointStarted,
       PublishWaypointCompleted, PublishTerminal, request, stop

\* A step that stops no job, adds no flagged call and brings no new danger.
LEMMA StopFrame ==
  ASSUME StopInv, StoppedJobs' = StoppedJobs, FlaggedStops' = FlaggedStops,
         StopPending' => StopPending, IsFiniteSet(Stoppers)
  PROVE  StopInv'
<1>1. Cardinality(StoppedJobs) \in Nat /\ Cardinality(FlaggedStops) \in Nat
  BY StopSetsAreFinite
<1> QED
  BY <1>1 DEF StopInv

\* A thread stops at the head of its loop, when it sees the flag, or not at all.
LEMMA WorkerStops ==
  ASSUME TypeInv, NEW j \in Jobs, MeasuredJob(j), Worker(j) \/ WorkerPublish(j)
  PROVE  \/ /\ pc[j] = "check" /\ pc'[j] = "release" /\ stopRequested
            /\ jobState[j] = "running" /\ jobState'[j] = "stopped"
         \/ /\ Driving(j)' => Driving(j)
            /\ jobState'[j] = "stopped" <=> jobState[j] = "stopped"
            /\ stopRequested' => stopRequested
<1>1. pc \in [Jobs -> PcSteps] /\ jobState \in [Jobs -> States]
  BY DEF TypeInv, TypeOK
<1> USE <1>1 DEF MeasuredJob, Driving, LoopSteps, Go, Fail, service, thread
<1>2. CASE CheckStop(j)
  BY <1>2 DEF CheckStop
<1>3. CASE MoveArm(j)
  BY <1>3 DEF MoveArm
<1>4. CASE AwaitArrival(j)
  BY <1>4 DEF AwaitArrival
<1>5. CASE ScanWaypoint(j)
  BY <1>5 DEF ScanWaypoint
<1>6. CASE SaveMeasurement(j)
  BY <1>6 DEF SaveMeasurement
<1>7. CASE PersistProgress(j)
  BY <1>7 DEF PersistProgress
<1>8. CASE ReturnMove(j)
  BY <1>8 DEF ReturnMove
<1>9. CASE AwaitReturn(j)
  BY <1>9 DEF AwaitReturn
<1>10. CASE ReleaseSlot(j)
  BY <1>10 DEF ReleaseSlot
<1>11. CASE ResetStop(j)
  BY <1>11 DEF ResetStop
<1>12. CASE PersistFinal(j)
  BY <1>12 DEF PersistFinal
<1>13. CASE PruneCount(j)
  BY <1>13 DEF PruneCount
<1>14. CASE PruneSelect(j)
  BY <1>14 DEF PruneSelect
<1>15. CASE PruneDelete(j)
  BY <1>15 DEF PruneDelete
<1>16. CASE PruneCommit(j)
  BY <1>16 DEF PruneCommit
<1>17. CASE PruneAtomically(j)
  BY <1>17 DEF PruneAtomically
<1>18. CASE PublishWaypointStarted(j)
  BY <1>18 DEF PublishWaypointStarted
<1>19. CASE PublishWaypointCompleted(j)
  BY <1>19 DEF PublishWaypointCompleted
<1>20. CASE PublishTerminal(j)
  BY <1>20 DEF PublishTerminal
<1> QED
  BY <1>2, <1>3, <1>4, <1>5, <1>6, <1>7, <1>8, <1>9, <1>10, <1>11, <1>12, <1>13, <1>14, <1>15,
     <1>16, <1>17, <1>18, <1>19, <1>20 DEF Worker, WorkerPublish

LEMMA StopWorker ==
  ASSUME StopIInv, IsFiniteSet(Stoppers),
         NEW j \in Jobs, Worker(j) \/ WorkerPublish(j)
  PROVE  StopInv'
<1>1. /\ \A k \in Jobs \ {j} : pc'[k] = pc[k] /\ jobState'[k] = jobState[k]
      /\ UNCHANGED <<reqPc, reqJob, stopPc>>
  <2>1. TypeInv
    BY DEF StopIInv, SlotIInv
  <2> QED
    BY <2>1, WorkerFrame, WorkerLeavesCalls
<1>2. TypeInv /\ MeasuredJob(j)
  BY DEF StopIInv, SlotIInv, MeasuredInv
<1>3. FlaggedStops' = FlaggedStops
  BY <1>1 DEF FlaggedStops
<1>4. CASE /\ pc[j] = "check" /\ pc'[j] = "release" /\ stopRequested
           /\ jobState[j] = "running" /\ jobState'[j] = "stopped"
  <2>1. StopPending
    BY <1>4 DEF StopPending, Driving, LoopSteps
  <2>2. StoppedJobs' = StoppedJobs \cup {j} /\ j \notin StoppedJobs
    BY <1>1, <1>4 DEF StoppedJobs
  <2>3. Cardinality(StoppedJobs') = Cardinality(StoppedJobs) + 1
    BY <2>2, FS_AddElement, StopSetsAreFinite
  <2>4. ~StopPending'
    <3>1. running = j /\ j # NoJob /\ pc[j] # "none"
      BY <1>4, JobRunnerAssumption DEF StopIInv, SlotIInv, SlotInv, Holding, LoopSteps
    <3>2. \A k \in Jobs : ~Driving(k)'
      <4>1. SUFFICES ASSUME NEW k \in Jobs, Driving(k)' PROVE FALSE
        OBVIOUS
      <4>2. k # j
        BY <1>4, <4>1 DEF Driving, LoopSteps
      <4>3. Driving(k)
        BY <1>1, <4>1, <4>2 DEF Driving
      <4> QED
        BY <3>1, <4>2, <4>3 DEF StopIInv, SlotIInv, SlotInv, Holding, Driving
    <3>3. \A c \in Clients : reqPc[c] \notin {"claim", "persist", "spawn"}
      BY <3>1 DEF StopIInv, SlotIInv, SlotInv, RequestOwnsJob
    <3> QED
      BY <1>1, <3>2, <3>3 DEF StopPending
  <2>5. Cardinality(StoppedJobs) < Cardinality(FlaggedStops)
    BY <2>1 DEF StopIInv, StopInv
  <2> QED
    BY <1>3, <2>3, <2>4, <2>5, StopSetsAreFinite DEF StopInv
<1>5. CASE /\ Driving(j)' => Driving(j)
           /\ jobState'[j] = "stopped" <=> jobState[j] = "stopped"
           /\ stopRequested' => stopRequested
  <2>1. StoppedJobs' = StoppedJobs
    BY <1>1, <1>5 DEF StoppedJobs
  <2>2. \A k \in Jobs : Driving(k)' => Driving(k)
    BY <1>1, <1>5 DEF Driving
  <2>3. StopPending' => StopPending
    BY <1>1, <1>5, <2>2 DEF StopPending
  <2> QED
    BY <1>3, <2>1, <2>3, StopFrame DEF StopIInv
<1> QED
  BY <1>2, <1>4, <1>5, WorkerStops

LEMMA StopRequest ==
  ASSUME StopIInv, IsFiniteSet(Stoppers), \A a, b \in Clients : a = b,
         NEW c \in Clients, Request(c) \/ PublishStarted(c)
  PROVE  StopInv'
<1>1. /\ pc \in [Jobs -> PcSteps] /\ jobState \in [Jobs -> States]
      /\ reqPc \in [Clients -> ReqSteps]
      /\ reqPc[c] # "idle" => reqJob[c] \in Jobs
      /\ MeasuredInv /\ RequestOwnsJob
  BY DEF StopIInv, SlotIInv, TypeInv, TypeOK, RequestOwnsJob
<1>2. FlaggedStops' = FlaggedStops
  BY DEF Request, SaveJobImage, LookupJob, CheckSlot, ClearStop, ClaimSlot, PersistRunning,
     SpawnWorker,
         PublishStarted, FlaggedStops, stop
<1>3. CASE SpawnWorker(c)
  <2>1. pc[reqJob[c]] = "none" /\ jobState[reqJob[c]] = "created" /\ reqPc[c] = "spawn"
    BY <1>1, <1>3 DEF SpawnWorker, GoReq, RequestOwnsJob, MeasuredInv, MeasuredJob
  <2>2. StoppedJobs' = StoppedJobs
    BY <1>1, <1>3, <2>1 DEF SpawnWorker, StoppedJobs
  <2>3. StopPending' => StopPending
    BY <1>1, <1>3, <2>1 DEF SpawnWorker, StopPending, service
  <2> QED
    BY <1>2, <2>2, <2>3, StopFrame DEF StopIInv
<1>4. CASE ~SpawnWorker(c)
  <2>1. UNCHANGED <<pc, jobState>>
    BY <1>4 DEF Request, SaveJobImage, LookupJob, CheckSlot, ClearStop, ClaimSlot,
       PersistRunning,
                PublishStarted, thread
  <2>2. StoppedJobs' = StoppedJobs
    BY <2>1 DEF StoppedJobs
  <2>3. \A k \in Jobs : Driving(k)' <=> Driving(k)
    BY <2>1 DEF Driving
  <2>4. StopPending' => StopPending
    <3> USE <1>1, <2>3 DEF StopPending, GoReq, service
    <3>1. CASE SaveJobImage(c)
      BY <3>1 DEF SaveJobImage
    <3>2. CASE LookupJob(c)
      BY <3>2 DEF LookupJob
    <3>3. CASE CheckSlot(c)
      BY <3>3 DEF CheckSlot
    <3>4. CASE ClearStop(c)
      BY <3>4 DEF ClearStop
    <3>5. CASE ClaimSlot(c)
      BY <3>5 DEF ClaimSlot
    <3>6. CASE PersistRunning(c)
      BY <3>6 DEF PersistRunning
    <3>7. CASE PublishStarted(c)
      BY <3>7 DEF PublishStarted
    <3> QED
      BY <1>4, <3>2, <3>3, <3>4, <3>5, <3>6, <3>7, <3>1 DEF Request
  <2> QED
    BY <1>2, <2>2, <2>4, StopFrame DEF StopIInv
<1> QED
  BY <1>3, <1>4

\* Raising the flag makes one more stop call that a stopped job can be charged to.
LEMMA StopStopper ==
  ASSUME StopIInv, IsFiniteSet(Stoppers),
         NEW s \in Stoppers, StopCheck(s) \/ StopCall(s)
  PROVE  StopInv'
<1>1. stopPc \in [Stoppers -> StopSteps]
  BY DEF StopIInv, SlotIInv, TypeInv, TypeOK
<1>2. UNCHANGED <<pc, jobState, reqPc>>
  BY DEF StopCheck, StopCall, StopFlag, StopRobot, request, thread
<1>3. StoppedJobs' = StoppedJobs /\ \A k \in Jobs : Driving(k)' <=> Driving(k)
  BY <1>2 DEF StoppedJobs, Driving
<1>4. CASE StopFlag(s)
  <2>1. FlaggedStops' = FlaggedStops \cup {s} /\ s \notin FlaggedStops
    BY <1>1, <1>4 DEF StopFlag, FlaggedStops
  <2>2. Cardinality(FlaggedStops') = Cardinality(FlaggedStops) + 1
    BY <2>1, FS_AddElement, StopSetsAreFinite
  <2>3. Cardinality(StoppedJobs) <= Cardinality(FlaggedStops)
    BY StopSetsAreFinite DEF StopIInv, StopInv
  <2> QED
    BY <1>3, <2>2, <2>3, StopSetsAreFinite DEF StopInv
<1>5. CASE StopCheck(s) \/ StopRobot(s)
  <2>1. FlaggedStops' = FlaggedStops
    BY <1>1, <1>5 DEF StopCheck, StopRobot, FlaggedStops
  <2>2. stopRequested' = stopRequested
    BY <1>5 DEF StopCheck, StopRobot, service
  <2>3. StopPending' => StopPending
    BY <1>2, <1>3, <2>2 DEF StopPending
  <2> QED
    BY <1>3, <2>1, <2>3, StopFrame DEF StopIInv
<1> QED
  BY <1>4, <1>5 DEF StopCall

LEMMA StopStep ==
  ASSUME IsFiniteSet(Stoppers), MaxCrashes = 0, \A a, b \in Clients : a = b,
         StopIInv, [Next]_vars
  PROVE  StopInv'
<1>1. TypeInv
  BY DEF StopIInv, SlotIInv
<1>2. ~Crash
  BY <1>1 DEF Crash, TypeInv, TypeOK
<1>3. ASSUME NEW c \in Clients, NEW k \in Jobs, SubmitJob(c, k) PROVE StopInv'
  <2>1. /\ UNCHANGED <<pc, jobState, stopPc, stopRequested>>
        /\ reqPc \in [Clients -> ReqSteps]
        /\ reqPc' = [reqPc EXCEPT ![c] = "image"]
    BY <1>1, <1>3 DEF SubmitJob, GoReq, thread, stop, TypeInv, TypeOK
  <2>2. StoppedJobs' = StoppedJobs /\ FlaggedStops' = FlaggedStops
    BY <2>1 DEF StoppedJobs, FlaggedStops
  <2>3. \A k2 \in Jobs : Driving(k2)' <=> Driving(k2)
    BY <2>1 DEF Driving
  <2>4. StopPending' => StopPending
    BY <2>1, <2>3 DEF StopPending
  <2> QED
    BY <2>2, <2>4, StopFrame DEF StopIInv
<1>4. CASE (\E k \in Jobs : DeleteJob(k)) \/ ManualMove \/ Quiescent \/ UNCHANGED vars
  <2>1. UNCHANGED <<pc, jobState, stopPc, stopRequested, reqPc>>
    BY <1>4 DEF DeleteJob, ManualMove, Quiescent, vars, service, request, thread, stop
  <2>2. StoppedJobs' = StoppedJobs /\ FlaggedStops' = FlaggedStops
    BY <2>1 DEF StoppedJobs, FlaggedStops
  <2>3. StopPending' => StopPending
    BY <2>1 DEF StopPending, Driving
  <2> QED
    BY <2>2, <2>3, StopFrame DEF StopIInv
<1> QED
  BY <1>2, <1>3, <1>4, StopWorker, StopRequest, StopStopper DEF Next, Outside

\* A stop call stops at most one job, whatever writes fail and jobs are deleted:
\* the flag of one job never stops the next. It takes posts that come one after
\* the other, because run_job clears the flag before it claims the slot, and a
\* process that does not die, because a call that has raised the flag and dies
\* before it answers is not counted. The calls only have to be finitely many.
THEOREM OneStopStopsOneJob ==
  ASSUME \A a, b \in Clients : a = b, MaxCrashes = 0, IsFiniteSet(Stoppers)
  PROVE  Spec => []OneStopOneJob
<1>1. Init => StopIInv
  <2> SUFFICES ASSUME Init PROVE StopIInv
    OBVIOUS
  <2>1. SlotIInv
    BY TypeInit, OwnsInit DEF Init, SlotIInv, SlotInv, Holding, LoopSteps
  <2>2. MeasuredInv
    BY DEF Init, MeasuredInv, MeasuredJob, Measured, Counted, Driving, LoopSteps
  <2>3. StoppedJobs = {} /\ ~StopPending
    BY DEF Init, StoppedJobs, StopPending
  <2>4. Cardinality(StoppedJobs) = 0
    BY <2>3, FS_EmptySet
  <2> QED
    BY <2>1, <2>2, <2>3, <2>4, StopSetsAreFinite DEF StopIInv, StopInv
<1>2. StopIInv /\ [Next]_vars => StopIInv'
  <2> SUFFICES ASSUME StopIInv, [Next]_vars PROVE StopIInv'
    OBVIOUS
  <2>1. SlotIInv'
    BY TypeStep, OwnsStep, SlotRequest, SlotOther DEF StopIInv, SlotIInv
  <2>2. MeasuredInv'
    BY MeasuredStep DEF StopIInv, SlotIInv, MeasuredIInv
  <2> QED
    BY <2>1, <2>2, StopStep DEF StopIInv
<1>3. StopIInv => OneStopOneJob
  BY StopSetsAreFinite DEF StopIInv, StopInv, OneStopOneJob, StoppedJobs, FlaggedStops
<1> QED
  BY <1>1, <1>2, <1>3, PTL DEF Spec
=============================================================================
