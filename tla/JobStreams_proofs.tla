------------------------- MODULE JobStreams_proofs -------------------------
(***************************************************************************)
(* What the client of an event stream is told, for every value of the      *)
(* constants: failing writes, restarts, deletions and any number of users, *)
(* stop calls and streams included.                                        *)
(*                                                                         *)
(* A step of JobStreams is a step of JobRunner or leaves its variables     *)
(* alone, so the invariants of JobRunner hold here. Two facts are missing. *)
(* SettledJob: from the final update until the outcome is published the    *)
(* row says what the Job object says, and it is never ahead of it. Then,   *)
(* by StoreEvolves, what the row said stays true until the job is deleted. *)
(* StoryInv: all a stream was told, or is about to be, in the order it     *)
(* was made (the snapshot before everything queued since) grows with the   *)
(* progress of the job and agrees with its row.                            *)
(***************************************************************************)
EXTENDS JobStreams, JobLifecycle_proofs

\* The row of j against the Job object of its thread.
SettledJob(j) ==
  /\ rowLast[j] <= jobLast[j]
  /\ pc[j] \in {"count", "select", "delete", "commit", "publish"} =>
       /\ jobState[j] \in Terminal
       /\ rowState[j] # "absent" => rowState[j] = jobState[j] /\ rowLast[j] = jobLast[j]

SettledInv == \A j \in Jobs : SettledJob(j)

RunnerIInv == LifeIInv /\ SettledInv

Listening(s) == streamPc[s] \in {"subscribed", "streaming"}

\* A stream that was opened has a job that was created; its queue is in the
\* subscriber list of that job while the generator reads from it.
StreamInv ==
  \A s \in Streams :
    /\ streamPc[s] # "idle" => streamJob[s] \in Jobs /\ born[streamJob[s]] # 0
    /\ topic[s] = IF Listening(s) THEN streamJob[s] ELSE NoJob
    /\ ~Listening(s) => queue[s] = <<>>
    /\ streamPc[s] \in {"idle", "open", "read", "subscribed"} => sent[s] = <<>>

\* What an event says is not ahead of the job, and is in the row if it is final.
Fits(e, j) ==
  /\ e.points <= jobLast[j]
  /\ e.state \in Terminal /\ rowState[j] # "absent" =>
       rowState[j] = e.state /\ rowLast[j] = e.points

Rising(told) ==
  \A m, n \in 1..Len(told) :
    m < n /\ told[n].type # "started" => told[m].points <= told[n].points

Coherent(told, j) == Rising(told) /\ \A n \in 1..Len(told) : Fits(told[n], j)

\* Everything a stream was told or will be told of what has happened so far.
Story(s) ==
  (IF streamPc[s] \in {"read", "subscribed"} THEN <<snapshot[s]>> ELSE sent[s]) \o queue[s]

StoryInv == \A s \in Streams : streamPc[s] # "idle" => Coherent(Story(s), streamJob[s])

StreamsIInv == RunnerIInv /\ StreamsTypeOK /\ StreamInv /\ StoryInv

-----------------------------------------------------------------------------
(* The thread of a job and its row.                                        *)

LEMMA StreamsStepIsRunnerStep == [StreamsNext]_allVars => [Next]_vars
BY DEF StreamsNext, allVars, Silent, Announce, StreamStep, CrashStreams, Next, WorkerPublish,
   AnnounceStarted, AnnounceWaypointStarted, AnnounceWaypointCompleted, AnnounceTerminal,
   OpenStream, Serve, ReadSnapshot, SubscribeStream, SendSnapshot, Forward, PollAgain, Disconnect

\* A thread counts a waypoint in its own Job object when it saves the measurement.
LEMMA WorkerCounts ==
  ASSUME NEW j \in Jobs, Worker(j) \/ WorkerPublish(j)
  PROVE  \/ jobLast' = jobLast
         \/ pc[j] = "save" /\ jobLast' = [jobLast EXCEPT ![j] = index[j] + 1]
<1> USE DEF Go, Fail, thread
<1>1. CASE CheckStop(j)
  BY <1>1 DEF CheckStop
<1>2. CASE MoveArm(j)
  BY <1>2 DEF MoveArm
<1>3. CASE AwaitArrival(j)
  BY <1>3 DEF AwaitArrival
<1>4. CASE ScanWaypoint(j)
  BY <1>4 DEF ScanWaypoint
<1>5. CASE SaveMeasurement(j)
  BY <1>5 DEF SaveMeasurement
<1>6. CASE PersistProgress(j)
  BY <1>6 DEF PersistProgress
<1>7. CASE ReturnMove(j)
  BY <1>7 DEF ReturnMove
<1>8. CASE AwaitReturn(j)
  BY <1>8 DEF AwaitReturn
<1>9. CASE ReleaseSlot(j)
  BY <1>9 DEF ReleaseSlot
<1>10. CASE ResetStop(j)
  BY <1>10 DEF ResetStop
<1>11. CASE PersistFinal(j)
  BY <1>11 DEF PersistFinal
<1>12. CASE PruneCount(j)
  BY <1>12 DEF PruneCount
<1>13. CASE PruneSelect(j)
  BY <1>13 DEF PruneSelect
<1>14. CASE PruneDelete(j)
  BY <1>14 DEF PruneDelete
<1>15. CASE PruneCommit(j)
  BY <1>15 DEF PruneCommit
<1>16. CASE PruneAtomically(j)
  BY <1>16 DEF PruneAtomically
<1>17. CASE PublishWaypointStarted(j)
  BY <1>17 DEF PublishWaypointStarted
<1>18. CASE PublishWaypointCompleted(j)
  BY <1>18 DEF PublishWaypointCompleted
<1>19. CASE PublishTerminal(j)
  BY <1>19 DEF PublishTerminal
<1> QED
  BY <1>1, <1>2, <1>3, <1>4, <1>5, <1>6, <1>7, <1>8, <1>9, <1>10, <1>11, <1>12, <1>13, <1>14,
     <1>15, <1>16, <1>17, <1>18, <1>19 DEF Worker, WorkerPublish

LEMMA SettledWorker ==
  ASSUME LifeIInv, NEW j \in Jobs, SettledJob(j), Worker(j) \/ WorkerPublish(j)
  PROVE  SettledJob(j)'
<1>1. /\ pc \in [Jobs -> PcSteps] /\ index \in [Jobs -> 0..PathLen]
      /\ jobState \in [Jobs -> States]
      /\ rowState \in [Jobs -> States \cup {"absent"}]
      /\ rowLast \in [Jobs -> 0..PathLen] /\ jobLast \in [Jobs -> 0..PathLen]
      /\ PathLen \in Nat \ {0}
      /\ pc[j] = "save" => jobLast[j] = index[j] /\ index[j] < PathLen
      /\ pc[j] = "final" => jobState[j] \in Terminal
      /\ rowState[j] = "absent" => rowLast[j] = 0
  BY JobRunnerAssumption
     DEF LifeIInv, MeasuredIInv, LifeInv, LifeJob, Counted, Driving, Unsettled, LoopSteps,
         TypeInv, TypeOK, IndexInBody, BodySteps
<1> USE <1>1 DEF SettledJob, Terminal, Go, Fail, Commit, FailWrite, store, rows, thread
<1>2. CASE CheckStop(j)
  BY <1>2 DEF CheckStop
<1>3. CASE MoveArm(j)
  BY <1>3 DEF MoveArm
<1>4. CASE AwaitArrival(j)
  BY <1>4 DEF AwaitArrival
<1>5. CASE ScanWaypoint(j)
  BY <1>5 DEF ScanWaypoint
<1>6. CASE SaveMeasurement(j)
  BY <1>6 DEF SaveMeasurement
<1>7. CASE PersistProgress(j)
  BY <1>7 DEF PersistProgress, UpdateRow, Present
<1>8. CASE ReturnMove(j)
  BY <1>8 DEF ReturnMove
<1>9. CASE AwaitReturn(j)
  BY <1>9 DEF AwaitReturn
<1>10. CASE ReleaseSlot(j)
  BY <1>10 DEF ReleaseSlot
<1>11. CASE ResetStop(j)
  BY <1>11 DEF ResetStop
<1>12. CASE PersistFinal(j)
  BY <1>12 DEF PersistFinal, UpdateRow, Present
<1>13. CASE PruneCount(j)
  BY <1>13 DEF PruneCount
<1>14. CASE PruneSelect(j)
  BY <1>14 DEF PruneSelect
<1>15. CASE PruneDelete(j)
  BY <1>15 DEF PruneDelete
<1>16. CASE PruneCommit(j)
  <2>1. /\ pc[j] = "commit" /\ pc'[j] \in {"publish", "dead"}
        /\ jobState' = jobState /\ jobLast' = jobLast
        /\ rowState'[j] = rowState[j] \/ rowState'[j] = "absent"
        /\ rowLast'[j] = rowLast[j] \/ (rowLast'[j] = 0 /\ rowState'[j] = "absent")
    BY <1>16 DEF PruneCommit
  <2> QED
    BY <2>1
<1>17. CASE PruneAtomically(j)
  <2>1. /\ pc[j] = "count" /\ jobState' = jobState /\ jobLast' = jobLast
        /\ DeleteRows(Oldest(Excess))
    BY <1>17 DEF PruneAtomically
  <2>2. RowKeptOrDeleted(j)
    BY <2>1, DeleteRowsKeepsOrDeletes DEF LifeIInv, LifeInv
  <2> QED
    BY <2>1, <2>2 DEF RowKeptOrDeleted
<1>18. CASE PublishWaypointStarted(j)
  BY <1>18 DEF PublishWaypointStarted
<1>19. CASE PublishWaypointCompleted(j)
  BY <1>19 DEF PublishWaypointCompleted
<1>20. CASE PublishTerminal(j)
  BY <1>20 DEF PublishTerminal
<1> QED
  BY <1>2, <1>3, <1>4, <1>5, <1>6, <1>7, <1>8, <1>9, <1>10, <1>11, <1>12, <1>13, <1>14, <1>15,
     <1>16, <1>17, <1>18, <1>19, <1>20 DEF Worker, WorkerPublish

LEMMA SettledFrame ==
  ASSUME NEW k \in Jobs, SettledJob(k), RowKeptOrDeleted(k), pc'[k] = pc[k],
         jobState'[k] = jobState[k], jobLast'[k] = jobLast[k], jobLast[k] \in Nat
  PROVE  SettledJob(k)'
BY DEF SettledJob, RowKeptOrDeleted

LEMMA SettledStep == LifeIInv /\ SettledInv /\ [Next]_vars => SettledInv'
<1> SUFFICES ASSUME LifeIInv, SettledInv, [Next]_vars, NEW j \in Jobs PROVE SettledJob(j)'
  BY DEF SettledInv
<1>1. /\ pc \in [Jobs -> PcSteps] /\ jobLast \in [Jobs -> 0..PathLen]
      /\ rowState \in [Jobs -> States \cup {"absent"}] /\ rowLast \in [Jobs -> 0..PathLen]
      /\ reqPc \in [Clients -> ReqSteps] /\ PathLen \in Nat
      /\ TypeInv /\ RequestOwnsJob /\ LifeJob(j) /\ SettledJob(j)
  BY JobRunnerAssumption DEF LifeIInv, MeasuredIInv, LifeInv, SettledInv, TypeInv, TypeOK
<1>2. jobLast[j] \in Nat
  BY <1>1
<1>3. ASSUME NEW k \in Jobs, Worker(k) \/ WorkerPublish(k) PROVE SettledJob(j)'
  BY <1>1, <1>2, <1>3, SettledWorker, WorkerFrame, WorkerKeepsOthers, SettledFrame
<1>4. ASSUME NEW c \in Clients, Request(c) \/ PublishStarted(c) PROVE SettledJob(j)'
  <2>1. CASE PersistRunning(c)
    BY <1>1, <2>1 DEF PersistRunning, GoReq, UpdateRow, Present, RequestOwnsJob, LifeJob,
       SettledJob,
       Commit, FailWrite, rows, thread
  <2>2. CASE SpawnWorker(c)
    BY <1>1, <2>2 DEF SpawnWorker, GoReq, RequestOwnsJob, SettledJob, store, rows
  <2>3. CASE SaveJobImage(c) \/ LookupJob(c) \/ CheckSlot(c) \/ ClearStop(c) \/ ClaimSlot(c)
             \/ PublishStarted(c)
    <3>1. RowKeptOrDeleted(j) /\ UNCHANGED thread
      BY <1>1, <2>3
         DEF SaveJobImage, LookupJob, CheckSlot, ClearStop, ClaimSlot, PublishStarted,
             RowKeptOrDeleted, LifeJob, Commit, FailWrite, store, rows
    <3> QED
      BY <1>1, <1>2, <3>1, SettledFrame DEF thread
  <2> QED
    BY <1>4, <2>1, <2>2, <2>3 DEF Request
<1>5. ASSUME NEW c \in Clients, NEW k \in Jobs, SubmitJob(c, k) PROVE SettledJob(j)'
  BY <1>1, <1>5 DEF SubmitJob, Commit, RequestOwnsJob, LifeJob, SettledJob, thread
<1>6. CASE Crash
  <2>1. RowKeptOrDeleted(j)
    BY <1>1, <1>6, DeleteRowsKeepsOrDeletes DEF Crash, RowKeptOrDeleted, rows
  <2> QED
    BY <1>1, <1>6, <2>1 DEF Crash, SettledJob, RowKeptOrDeleted
<1>7. ASSUME NEW k \in Jobs, DeleteJob(k) PROVE SettledJob(j)'
  BY <1>1, <1>2, <1>7, DeleteRowsKeepsOrDeletes, SettledFrame DEF DeleteJob, thread
<1>8. CASE ManualMove \/ Quiescent \/ UNCHANGED vars
  BY <1>1, <1>2, <1>8, SettledFrame DEF ManualMove, Quiescent, vars, RowKeptOrDeleted, store,
     rows, thread
<1>9. ASSUME NEW s \in Stoppers, StopCheck(s) \/ StopCall(s) PROVE SettledJob(j)'
  BY <1>1, <1>2, <1>9, SettledFrame
     DEF StopCheck, StopCall, StopFlag, StopRobot, RowKeptOrDeleted, store, rows, thread
<1> QED
  BY <1>3, <1>4, <1>5, <1>6, <1>7, <1>8, <1>9 DEF Next, Outside

\* The Job object of a thread never counts back, not even across a restart, and
\* whatever was born stays so.
LEMMA ProgressGrows ==
  ASSUME LifeIInv, [Next]_vars, NEW j \in Jobs
  PROVE  jobLast[j] <= jobLast'[j] /\ (born[j] # 0 => born'[j] # 0)
<1>1. /\ jobLast \in [Jobs -> 0..PathLen] /\ index \in [Jobs -> 0..PathLen] /\ PathLen \in Nat
      /\ born \in [Jobs -> Nat] /\ TypeInv
      /\ \A k \in Jobs : pc[k] = "save" => jobLast[k] = index[k]
  BY JobRunnerAssumption
     DEF LifeIInv, MeasuredIInv, LifeInv, LifeJob, Counted, Driving, LoopSteps, TypeInv, TypeOK
<1>2. ASSUME NEW k \in Jobs, Worker(k) \/ WorkerPublish(k)
      PROVE  jobLast[j] <= jobLast'[j] /\ born' = born
  BY <1>1, <1>2, WorkerCounts, WorkerAndSlot
<1>3. ASSUME NEW c \in Clients, NEW k \in Jobs, SubmitJob(c, k)
      PROVE  jobLast' = jobLast /\ (born[j] # 0 => born'[j] # 0)
  BY <1>1, <1>3, RankIsPositive DEF SubmitJob, thread
<1>4. ASSUME NEW c \in Clients, Request(c) \/ PublishStarted(c)
      PROVE  jobLast' = jobLast /\ born' = born
  BY <1>4 DEF Request, SaveJobImage, LookupJob, CheckSlot, ClearStop, ClaimSlot, PersistRunning,
     SpawnWorker, PublishStarted, UpdateRow, FailWrite, store, thread
<1>5. CASE Crash \/ ManualMove \/ Quiescent \/ UNCHANGED vars
  BY <1>1, <1>5 DEF Crash, ManualMove, Quiescent, vars, DeleteRows, store, thread
<1>6. ASSUME NEW k \in Jobs, DeleteJob(k)
      PROVE  jobLast' = jobLast /\ born' = born
  BY <1>6 DEF DeleteJob, DeleteRows, thread
<1>7. ASSUME NEW s \in Stoppers, StopCheck(s) \/ StopCall(s)
      PROVE  jobLast' = jobLast /\ born' = born
  BY <1>7 DEF StopCheck, StopCall, StopFlag, StopRobot, store, thread
<1> QED
  BY <1>1, <1>2, <1>3, <1>4, <1>5, <1>6, <1>7 DEF Next, Outside

\* What the table says of a job that has ended is final, until it is deleted for
\* good: JobLifecycle allows nothing else.
LEMMA StoreEvolves ==
  ASSUME LifeIInv, [Next]_vars, NEW j \in Jobs, born[j] # 0,
         rowState[j] \in Terminal \cup {"absent"}
  PROVE  \/ rowState'[j] = "absent"
         \/ rowState'[j] = rowState[j] /\ rowLast'[j] = rowLast[j]
<1>1. /\ rowState \in [Jobs -> States \cup {"absent"}] /\ rowLast \in [Jobs -> 0..PathLen]
      /\ pruned \subseteq Jobs
  BY DEF LifeIInv, MeasuredIInv, TypeInv, TypeOK
<1>2. LifecycleStep
  BY NextIsLifecycleStep DEF LifeIInv, MeasuredIInv
<1>3. Phase[j] \in Lifecycle!Outcomes \cup {"deleted"}
  BY DEF Phase, Terminal, Lifecycle!Outcomes
<1>4. Phase'[j] = "deleted" \/ (Phase'[j] = Phase[j] /\ rowLast'[j] = rowLast[j])
  <2>1. CASE UNCHANGED Lifecycle!vars
    BY <2>1 DEF Lifecycle!vars, Phase
  <2> USE <1>1, <1>3 DEF Lifecycle!Outcomes, Lifecycle!Shown, Lifecycle!Commit, Phase
  <2>2. ASSUME NEW k \in Jobs, Lifecycle!Create(k)
        PROVE  Phase'[j] = "deleted" \/ (Phase'[j] = Phase[j] /\ rowLast'[j] = rowLast[j])
    BY <2>2 DEF Lifecycle!Create
  <2>3. ASSUME NEW k \in Jobs, Lifecycle!Start(k)
        PROVE  Phase'[j] = "deleted" \/ (Phase'[j] = Phase[j] /\ rowLast'[j] = rowLast[j])
    BY <2>3 DEF Lifecycle!Start
  <2>4. ASSUME NEW k \in Jobs, Lifecycle!Advance(k)
        PROVE  Phase'[j] = "deleted" \/ (Phase'[j] = Phase[j] /\ rowLast'[j] = rowLast[j])
    BY <2>4 DEF Lifecycle!Advance
  <2>5. ASSUME NEW k \in Jobs, NEW outcome \in Lifecycle!Outcomes, Lifecycle!Finish(k, outcome)
        PROVE  Phase'[j] = "deleted" \/ (Phase'[j] = Phase[j] /\ rowLast'[j] = rowLast[j])
    BY <2>5 DEF Lifecycle!Finish
  <2>6. ASSUME NEW S \in SUBSET Jobs, Lifecycle!Delete(S)
        PROVE  Phase'[j] = "deleted" \/ (Phase'[j] = Phase[j] /\ rowLast'[j] = rowLast[j])
    BY <2>6 DEF Lifecycle!Delete
  <2>7. ASSUME (\E S \in SUBSET Jobs : Lifecycle!Prune(S)) \/ Lifecycle!Restore
        PROVE  Phase'[j] = Phase[j] /\ rowLast'[j] = rowLast[j]
    BY <2>7 DEF Lifecycle!Prune, Lifecycle!Restore
  <2> QED
    BY <1>2, <2>1, <2>2, <2>3, <2>4, <2>5, <2>6, <2>7 DEF LifecycleStep, Lifecycle!Next
<1>5. "deleted" \notin States /\ TypeInv' /\ born'[j] # 0
  BY ProgressGrows, TypeStep DEF States, Terminal, LifeIInv, MeasuredIInv
<1>6. rowState'[j] \in States \cup {"absent"}
  BY <1>5 DEF TypeInv, TypeOK
<1> QED
  BY <1>4, <1>5, <1>6 DEF Phase

-----------------------------------------------------------------------------
(* Stories.                                                                *)

LEMMA EventType ==
  /\ PathLen \in Nat
  /\ \A e \in Event : e.points \in 0..PathLen /\ e.state \in States
BY JobRunnerAssumption DEF Event

\* One event alone tells nothing wrong.
LEMMA CoherentSingle ==
  ASSUME NEW e \in Event, NEW j \in Jobs, Fits(e, j)
  PROVE  <<e>> \in Seq(Event) /\ Coherent(<<e>>, j)
BY DEF Coherent, Rising

\* A part of a story that keeps its order is coherent.
LEMMA CoherentPart ==
  ASSUME NEW told \in Seq(Event), NEW part \in Seq(Event), NEW from \in Nat, NEW j \in Jobs,
         Len(part) + from <= Len(told),
         \A n \in 1..Len(part) : part[n] = told[n + from],
         Coherent(told, j)
  PROVE  Coherent(part, j)
<1>1. \A n \in 1..Len(part) : n + from \in 1..Len(told)
  OBVIOUS
<1>2. \A m, n \in 1..Len(part) : m < n => m + from < n + from
  OBVIOUS
<1> QED
  BY <1>1, <1>2 DEF Coherent, Rising

\* A story goes on with an event that tells the progress of its job.
LEMMA CoherentAppend ==
  ASSUME NEW told \in Seq(Event), NEW e \in Event, NEW j \in Jobs, jobLast[j] \in Nat,
         Coherent(told, j), Fits(e, j), e.type = "started" \/ e.points = jobLast[j]
  PROVE  Coherent(Append(told, e), j)
<1> DEFINE longer == Append(told, e)
<1>1. /\ longer \in Seq(Event) /\ Len(longer) = Len(told) + 1
      /\ longer[Len(told) + 1] = e /\ \A n \in 1..Len(told) : longer[n] = told[n]
  OBVIOUS
<1>2. /\ \A n \in 1..Len(told) : Fits(told[n], j) /\ told[n] \in Event
      /\ \A m, n \in 1..Len(told) :
           m < n /\ told[n].type # "started" => told[m].points <= told[n].points
  BY DEF Coherent, Rising
<1> HIDE DEF longer
<1>3. \A n \in 1..Len(longer) : n \in 1..Len(told) \/ n = Len(told) + 1
  BY <1>1
<1>4. \A n \in 1..Len(longer) : Fits(longer[n], j)
  BY <1>1, <1>2, <1>3
<1>5. ASSUME NEW m \in 1..Len(longer), NEW n \in 1..Len(longer), m < n, longer[n].type # "started"
      PROVE  longer[m].points <= longer[n].points
  <2>1. m \in 1..Len(told)
    BY <1>1, <1>5
  <2>2. CASE n \in 1..Len(told)
    BY <1>1, <1>2, <1>5, <2>1, <2>2
  <2>3. CASE n = Len(told) + 1
    BY <1>1, <1>2, <1>5, <2>1, <2>3 DEF Fits
  <2> QED
    BY <1>3, <2>2, <2>3
<1>6. Coherent(longer, j)
  BY <1>4, <1>5 DEF Coherent, Rising
<1> QED
  BY <1>6 DEF longer

\* What was coherent stays so, whatever the service does next.
LEMMA CoherentLater ==
  ASSUME LifeIInv, LifeIInv', [Next]_vars, NEW told \in Seq(Event), NEW j \in Jobs, born[j] # 0,
         Coherent(told, j)
  PROVE  Coherent(told, j)'
<1>1. /\ jobLast[j] \in 0..PathLen /\ jobLast'[j] \in 0..PathLen /\ PathLen \in Nat
      /\ jobLast[j] <= jobLast'[j]
  BY ProgressGrows, JobRunnerAssumption DEF LifeIInv, MeasuredIInv, TypeInv, TypeOK
<1>2. ASSUME NEW n \in 1..Len(told) PROVE Fits(told[n], j)'
  <2>1. told[n] \in Event /\ Fits(told[n], j)
    BY DEF Coherent
  <2>2. told[n].points \in 0..PathLen
    BY <2>1, EventType
  <2>3. told[n].points <= jobLast'[j]
    BY <1>1, <2>1, <2>2 DEF Fits
  <2>4. ASSUME told[n].state \in Terminal, rowState'[j] # "absent"
        PROVE  rowState'[j] = told[n].state /\ rowLast'[j] = told[n].points
    <3>1. rowState[j] \in Terminal \cup {"absent"}
      BY <2>1, <2>4 DEF Fits
    <3>2. rowState'[j] = rowState[j] /\ rowLast'[j] = rowLast[j]
      BY <2>4, <3>1, StoreEvolves
    <3> QED
      BY <2>1, <2>4, <3>2 DEF Fits
  <2> QED
    BY <2>3, <2>4 DEF Fits
<1> QED
  BY <1>2 DEF Coherent, Rising

-----------------------------------------------------------------------------
(* The inductive invariant.                                                *)

LEMMA StreamsInitInv == StreamsInit => StreamsIInv
<1> SUFFICES ASSUME StreamsInit PROVE StreamsIInv
  OBVIOUS
<1>1. Init /\ LifeIInv /\ PathLen \in Nat
  BY LifeInvariant, JobRunnerAssumption DEF StreamsInit
<1>2. SettledInv
  BY <1>1 DEF Init, SettledInv, SettledJob
<1>3. StreamInv /\ StoryInv
  BY DEF StreamsInit, Bus!BusInit, StreamInv, StoryInv, Listening
<1>4. StreamsTypeOK
  <2>1. <<>> \in Seq(Event) /\ NoSnapshot \in Event
    BY <1>1 DEF NoSnapshot, Event, States
  <2> QED
    BY <2>1 DEF StreamsInit, Bus!BusInit, StreamsTypeOK, Bus!BusTypeOK, StreamSteps
<1> QED
  BY <1>1, <1>2, <1>3, <1>4 DEF StreamsIInv, RunnerIInv

\* What the invariant of the runner gives to a step of the streams.
LEMMA RunnerStep ==
  ASSUME StreamsIInv, [StreamsNext]_allVars
  PROVE  /\ [Next]_vars /\ LifeIInv /\ LifeIInv' /\ RunnerIInv'
         /\ \A j \in Jobs : born[j] # 0 => born'[j] # 0
         /\ \A j \in Jobs : jobLast[j] \in Nat /\ jobLast'[j] \in Nat
         /\ pc \in [Jobs -> PcSteps] /\ jobState \in [Jobs -> States]
         /\ rowState \in [Jobs -> States \cup {"absent"}]
         /\ rowLast \in [Jobs -> 0..PathLen] /\ jobLast \in [Jobs -> 0..PathLen]
<1>1. [Next]_vars /\ LifeIInv /\ SettledInv
  BY StreamsStepIsRunnerStep DEF StreamsIInv, RunnerIInv
<1>2. LifeIInv'
  BY <1>1, LifeInvariant
<1>3. SettledInv'
  BY <1>1, SettledStep
<1>4. TypeInv /\ TypeInv' /\ PathLen \in Nat
  BY <1>1, <1>2, JobRunnerAssumption DEF LifeIInv, MeasuredIInv
<1>5. \A j \in Jobs : jobLast[j] \in Nat /\ jobLast'[j] \in Nat
  BY <1>4 DEF TypeInv, TypeOK
<1> QED
  BY <1>1, <1>2, <1>3, <1>4, <1>5, ProgressGrows DEF RunnerIInv, TypeInv, TypeOK

\* A story is a sequence of events; while the stream only forwards it, or cuts it
\* short, it stays coherent.
LEMMA StoryType ==
  ASSUME StreamsIInv, NEW s \in Streams
  PROVE  Story(s) \in Seq(Event)
<1>1. snapshot[s] \in Event /\ sent[s] \in Seq(Event) /\ queue[s] \in Seq(Event)
  BY DEF StreamsIInv, StreamsTypeOK, Bus!BusTypeOK
<1>2. <<snapshot[s]>> \in Seq(Event)
  BY <1>1
<1> QED
  BY <1>1, <1>2 DEF Story

LEMMA StoryShortened ==
  ASSUME StreamsIInv, [StreamsNext]_allVars, NEW s \in Streams, streamPc[s] # "idle",
         NEW told, told = Story(s), NEW part \in Seq(Event), Len(part) <= Len(told),
         \A n \in 1..Len(part) : part[n] = told[n],
         NEW j \in Jobs, j = streamJob[s]
  PROVE  Coherent(part, j)'
<1>1. told \in Seq(Event) /\ Coherent(told, j) /\ born[j] # 0
  BY StoryType DEF StreamsIInv, StoryInv, StreamInv
<1>2. Coherent(part, j)
  BY <1>1, CoherentPart, \A n \in 1..Len(part) : n + 0 = n, Len(part) + 0 = Len(part)
<1> QED
  BY <1>1, <1>2, RunnerStep, CoherentLater

\* A stream that a step does not touch, and whose job lives on.
LEMMA StoryUntouched ==
  ASSUME StreamsIInv, [StreamsNext]_allVars, NEW s \in Streams,
         streamPc'[s] = streamPc[s], streamJob'[s] = streamJob[s], snapshot'[s] = snapshot[s],
         sent'[s] = sent[s], queue'[s] = queue[s], streamPc[s] # "idle"
  PROVE  Coherent(Story(s), streamJob[s])'
<1>1. PICK told \in Seq(Event) : told = Story(s)
  BY StoryType
<1>2. PICK j \in Jobs : j = streamJob[s]
  BY DEF StreamsIInv, StreamInv
<1>3. Coherent(told, j)'
  BY <1>1, <1>2, StoryShortened
<1>4. Story(s)' = told
  BY <1>1 DEF Story
<1> QED
  BY <1>2, <1>3, <1>4 DEF Coherent, Rising, Fits

\* What every step keeps as long as the variables of the streams do not change.
LEMMA SilentStep ==
  ASSUME StreamsIInv, [StreamsNext]_allVars, UNCHANGED streamVars
  PROVE  StreamsTypeOK' /\ StreamInv' /\ StoryInv'
<1>1. StreamsTypeOK'
  BY DEF StreamsIInv, StreamsTypeOK, Bus!BusTypeOK, streamVars
<1>2. StreamInv'
  BY RunnerStep DEF StreamsIInv, StreamInv, Listening, streamVars
<1>3. StoryInv'
  BY StoryUntouched DEF StoryInv, streamVars
<1> QED
  BY <1>1, <1>2, <1>3

\* An event of job j is published: the streams that listen to j are told.
LEMMA PublishStep ==
  ASSUME StreamsIInv, [StreamsNext]_allVars, NEW j \in Jobs, NEW e \in Event,
         Bus!Publish(j, e), UNCHANGED <<streamPc, streamJob, snapshot, sent, jobLast, rowState, rowLast>>,
         Fits(e, j), e.type = "started" \/ e.points = jobLast[j]
  PROVE  StreamsTypeOK' /\ StreamInv' /\ StoryInv'
<1>1. /\ topic' = topic
      /\ queue' = [s \in Streams |-> IF topic[s] = j THEN Append(queue[s], e) ELSE queue[s]]
      /\ queue \in [Streams -> Seq(Event)] /\ NoJob \notin Jobs
  BY JobRunnerAssumption DEF Bus!Publish, StreamsIInv, StreamsTypeOK, Bus!BusTypeOK
<1>2. StreamsTypeOK'
  <2>1. queue' \in [Streams -> Seq(Event)]
    BY <1>1
  <2> QED
    BY <1>1, <2>1 DEF StreamsIInv, StreamsTypeOK, Bus!BusTypeOK
<1>3. StreamInv'
  BY <1>1, RunnerStep DEF StreamsIInv, StreamInv, Listening
<1>4. ASSUME NEW s \in Streams, streamPc[s] # "idle" PROVE Coherent(Story(s), streamJob[s])'
  <2>1. CASE topic[s] # j
    BY <1>1, <1>4, <2>1, StoryUntouched
  <2>2. CASE topic[s] = j
    <3>1. streamJob[s] = j
      BY <1>1, <2>2 DEF StreamsIInv, StreamInv
    <3>2. PICK told \in Seq(Event) : told = Story(s)
      BY StoryType
    <3>3. Story(s)' = Append(told, e)
      <4>1. PICK before \in Seq(Event) :
              before = IF streamPc[s] \in {"read", "subscribed"} THEN <<snapshot[s]>> ELSE sent[s]
        <5>1. snapshot[s] \in Event /\ sent[s] \in Seq(Event)
          BY DEF StreamsIInv, StreamsTypeOK
        <5>2. <<snapshot[s]>> \in Seq(Event)
          BY <5>1
        <5> QED
          BY <5>1, <5>2
      <4>2. queue[s] \in Seq(Event) /\ queue'[s] = Append(queue[s], e)
        BY <1>1, <2>2
      <4>3. before \o Append(queue[s], e) = Append(before \o queue[s], e)
        BY <4>2
      <4> QED
        BY <3>2, <4>1, <4>2, <4>3 DEF Story
    <3>4. Coherent(told, j) /\ jobLast[j] \in Nat
      BY <1>4, <3>1, <3>2, RunnerStep DEF StreamsIInv, StoryInv
    <3>5. Coherent(Append(told, e), j)
      BY <3>4, CoherentAppend
    <3> QED
      BY <3>1, <3>3, <3>5 DEF Coherent, Rising, Fits
  <2> QED
    BY <2>1, <2>2
<1> QED
  BY <1>2, <1>3, <1>4 DEF StoryInv

LEMMA AnnounceStep ==
  ASSUME StreamsIInv, Announce
  PROVE  StreamsTypeOK' /\ StreamInv' /\ StoryInv'
<1>1. [StreamsNext]_allVars
  BY DEF StreamsNext
<1>2. /\ PathLen \in Nat /\ RequestOwnsJob /\ SettledInv
      /\ \A j \in Jobs : jobState[j] \in States /\ jobLast[j] \in 0..PathLen /\ jobLast[j] \in Nat
  BY <1>1, RunnerStep, JobRunnerAssumption DEF LifeIInv, MeasuredIInv, StreamsIInv, RunnerIInv
<1>3. ASSUME NEW c \in Clients, AnnounceStarted(c) PROVE StreamsTypeOK' /\ StreamInv' /\ StoryInv'
  <2>1. PICK j \in Jobs : j = reqJob[c]
    BY <1>2, <1>3 DEF AnnounceStarted, PublishStarted, GoReq, RequestOwnsJob
  <2>2. PICK e \in Event : e = [type |-> "started", state |-> "running", points |-> 0]
    <3>1. 0 \in 0..PathLen
      BY <1>2
    <3> QED
      BY <3>1 DEF Event, States
  <2>3. Fits(e, j) /\ e.type = "started"
    BY <1>2, <2>2 DEF Fits, Terminal
  <2> QED
    BY <1>1, <1>3, <2>1, <2>2, <2>3, PublishStep DEF AnnounceStarted, PublishStarted, store,
       rows,
       thread
<1>4. ASSUME NEW j \in Jobs, AnnounceWaypointStarted(j)
      PROVE  StreamsTypeOK' /\ StreamInv' /\ StoryInv'
  <2>1. PICK e \in Event : e = [type |-> "waypoint_started", state |-> "running", points |-> jobLast[j]]
    BY <1>2 DEF Event, States
  <2>2. Fits(e, j) /\ e.points = jobLast[j]
    BY <1>2, <2>1 DEF Fits, Terminal
  <2> QED
    BY <1>1, <1>4, <2>1, <2>2, PublishStep DEF AnnounceWaypointStarted, PublishWaypointStarted,
       store, rows
<1>5. ASSUME NEW j \in Jobs, AnnounceWaypointCompleted(j)
      PROVE  StreamsTypeOK' /\ StreamInv' /\ StoryInv'
  <2>1. PICK e \in Event : e = [type |-> "waypoint_completed", state |-> "running", points |-> jobLast[j]]
    BY <1>2 DEF Event, States
  <2>2. Fits(e, j) /\ e.points = jobLast[j]
    BY <1>2, <2>1 DEF Fits, Terminal
  <2> QED
    BY <1>1, <1>5, <2>1, <2>2, PublishStep DEF AnnounceWaypointCompleted,
       PublishWaypointCompleted, store, rows
<1>6. ASSUME NEW j \in Jobs, AnnounceTerminal(j)
      PROVE  StreamsTypeOK' /\ StreamInv' /\ StoryInv'
  <2>1. /\ jobState[j] \in Terminal
        /\ rowState[j] # "absent" => rowState[j] = jobState[j] /\ rowLast[j] = jobLast[j]
    BY <1>2, <1>6 DEF AnnounceTerminal, PublishTerminal, Go, SettledInv, SettledJob
  <2>2. PICK e \in Event : e = [type |-> jobState[j], state |-> jobState[j], points |-> jobLast[j]]
    BY <1>2, <2>1 DEF Event
  <2>3. Fits(e, j) /\ e.points = jobLast[j]
    BY <1>2, <2>1, <2>2 DEF Fits
  <2> QED
    BY <1>1, <1>6, <2>2, <2>3, PublishStep DEF AnnounceTerminal, PublishTerminal, store, rows
<1> QED
  BY <1>3, <1>4, <1>5, <1>6 DEF Announce

\* The generator of stream s makes a step; the other streams are not concerned.
LEMMA OwnStep ==
  ASSUME StreamsIInv, [StreamsNext]_allVars, StreamsTypeOK', NEW s \in Streams,
         UNCHANGED vars,
         \A r \in Streams \ {s} :
           /\ streamPc'[r] = streamPc[r] /\ streamJob'[r] = streamJob[r] /\ topic'[r] = topic[r]
           /\ snapshot'[r] = snapshot[r] /\ sent'[r] = sent[r] /\ queue'[r] = queue[r],
         streamPc'[s] # "idle",
         streamJob'[s] \in Jobs, born[streamJob'[s]] # 0,
         topic'[s] = IF Listening(s)' THEN streamJob'[s] ELSE NoJob,
         ~Listening(s)' => queue'[s] = <<>>,
         streamPc'[s] \in {"open", "read", "subscribed"} => sent'[s] = <<>>,
         Coherent(Story(s), streamJob[s])'
  PROVE  StreamInv' /\ StoryInv'
<1>1. born' = born
  BY DEF vars, store, rows
<1>2. StreamInv'
  <2> SUFFICES ASSUME NEW r \in Streams
               PROVE  /\ streamPc'[r] # "idle" => streamJob'[r] \in Jobs /\ born'[streamJob'[r]] # 0
                      /\ topic'[r] = IF Listening(r)' THEN streamJob'[r] ELSE NoJob
                      /\ ~Listening(r)' => queue'[r] = <<>>
                      /\ streamPc'[r] \in {"idle", "open", "read", "subscribed"} => sent'[r] = <<>>
    BY DEF StreamInv
  <2>1. CASE r = s
    BY <1>1, <2>1
  <2>2. CASE r # s
    BY <1>1, <2>2 DEF StreamsIInv, StreamInv, Listening
  <2> QED
    BY <2>1, <2>2
<1>3. StoryInv'
  BY StoryUntouched DEF StoryInv
<1> QED
  BY <1>2, <1>3

LEMMA OpenStep ==
  ASSUME StreamsIInv, NEW s \in Streams, NEW j \in Jobs, OpenStream(s, j)
  PROVE  StreamsTypeOK' /\ StreamInv' /\ StoryInv'
<1>1. /\ streamPc[s] = "idle" /\ born[j] # 0
      /\ streamPc' = [streamPc EXCEPT ![s] = IF j \in Present THEN "open" ELSE "closed"]
      /\ streamJob' = [streamJob EXCEPT ![s] = j]
      /\ UNCHANGED <<vars, topic, queue, snapshot, sent>>
  BY DEF OpenStream, GoStream
<1>2. /\ streamPc \in [Streams -> StreamSteps] /\ streamJob \in [Streams -> Jobs \cup {NoJob}]
      /\ topic[s] = NoJob /\ queue[s] = <<>> /\ sent[s] = <<>>
  BY <1>1 DEF StreamsIInv, StreamsTypeOK, StreamInv, Listening
<1>3. StreamsTypeOK'
  BY <1>1, <1>2 DEF StreamsIInv, StreamsTypeOK, Bus!BusTypeOK, StreamSteps
<1>4. Story(s)' = <<>> \o <<>>
  BY <1>1, <1>2 DEF Story
<1>5. Coherent(Story(s), streamJob[s])'
  BY <1>4 DEF Coherent, Rising
<1>6. [StreamsNext]_allVars
  BY DEF StreamsNext, StreamStep
<1>7. /\ streamPc'[s] \in {"open", "closed"} /\ streamJob'[s] = j
      /\ topic'[s] = NoJob /\ queue'[s] = <<>> /\ sent'[s] = <<>> /\ ~Listening(s)'
  BY <1>1, <1>2 DEF Listening
<1>8. \A r \in Streams \ {s} :
        /\ streamPc'[r] = streamPc[r] /\ streamJob'[r] = streamJob[r] /\ topic'[r] = topic[r]
        /\ snapshot'[r] = snapshot[r] /\ sent'[r] = sent[r] /\ queue'[r] = queue[r]
  BY <1>1, <1>2
<1> QED
  BY <1>1, <1>3, <1>5, <1>6, <1>7, <1>8, OwnStep

\* What the row of a job says is true of the job.
LEMMA RowFits ==
  ASSUME RunnerIInv, NEW j \in Jobs, j \in Present, NEW e,
         e = [type |-> "snapshot", state |-> rowState[j], points |-> rowLast[j]]
  PROVE  e \in Event /\ Fits(e, j)
<1>1. /\ rowState[j] \in States /\ rowLast[j] \in 0..PathLen /\ rowLast[j] <= jobLast[j]
  BY DEF RunnerIInv, SettledInv, SettledJob, LifeIInv, MeasuredIInv, TypeInv, TypeOK, Present
<1> QED
  BY <1>1 DEF Event, Fits

LEMMA ReadStep ==
  ASSUME StreamsIInv, NEW s \in Streams, ReadSnapshot(s)
  PROVE  StreamsTypeOK' /\ StreamInv' /\ StoryInv'
<1>1. PICK j \in Jobs : j = streamJob[s] /\ born[j] # 0
  BY DEF StreamsIInv, StreamInv, ReadSnapshot, GoStream
<1>2. /\ streamPc[s] = "open"
      /\ streamPc' = [streamPc EXCEPT ![s] = IF j \in Present THEN "read" ELSE "closed"]
      /\ snapshot' = [snapshot EXCEPT ![s] =
           IF j \in Present THEN [type |-> "snapshot", state |-> rowState[j], points |-> rowLast[j]]
           ELSE snapshot[s]]
      /\ UNCHANGED <<vars, topic, queue, streamJob, sent>>
  BY <1>1 DEF ReadSnapshot, GoStream
<1>3. /\ streamPc \in [Streams -> StreamSteps] /\ snapshot \in [Streams -> Event]
      /\ topic[s] = NoJob /\ queue[s] = <<>> /\ sent[s] = <<>>
  BY <1>2 DEF StreamsIInv, StreamsTypeOK, StreamInv, Listening
<1>4. [StreamsNext]_allVars
  BY DEF StreamsNext, StreamStep, Serve
<1>5. \A r \in Streams \ {s} :
        /\ streamPc'[r] = streamPc[r] /\ streamJob'[r] = streamJob[r] /\ topic'[r] = topic[r]
        /\ snapshot'[r] = snapshot[r] /\ sent'[r] = sent[r] /\ queue'[r] = queue[r]
  BY <1>2, <1>3
<1>6. /\ streamPc'[s] \in {"read", "closed"} /\ streamJob'[s] = j
      /\ topic'[s] = NoJob /\ queue'[s] = <<>> /\ sent'[s] = <<>> /\ ~Listening(s)'
  BY <1>1, <1>2, <1>3 DEF Listening
<1>7. CASE j \notin Present
  <2>1. snapshot' = snapshot /\ streamPc'[s] = "closed"
    BY <1>2, <1>3, <1>7
  <2>2. StreamsTypeOK'
    BY <1>2, <1>3, <1>7, <2>1 DEF StreamsIInv, StreamsTypeOK, Bus!BusTypeOK, StreamSteps
  <2>3. Story(s)' = <<>> \o <<>>
    BY <1>6, <2>1 DEF Story
  <2>4. Coherent(Story(s), streamJob[s])'
    BY <2>3 DEF Coherent, Rising
  <2> QED
    BY <1>1, <1>2, <1>4, <1>5, <1>6, <2>2, <2>4, OwnStep
<1>8. CASE j \in Present
  <2>1. PICK e \in Event :
          /\ e = [type |-> "snapshot", state |-> rowState[j], points |-> rowLast[j]]
          /\ Fits(e, j)
    BY <1>8, RowFits DEF StreamsIInv
  <2>2. snapshot' = [snapshot EXCEPT ![s] = e] /\ snapshot'[s] = e /\ streamPc'[s] = "read"
    BY <1>2, <1>3, <1>8, <2>1
  <2>3. StreamsTypeOK'
    BY <1>2, <1>3, <1>8, <2>2 DEF StreamsIInv, StreamsTypeOK, Bus!BusTypeOK, StreamSteps
  <2>4. <<e>> \in Seq(Event) /\ Coherent(<<e>>, j)
    BY <2>1, CoherentSingle
  <2>5. Story(s)' = <<e>>
    <3>1. Story(s)' = <<e>> \o <<>>
      BY <1>6, <2>2 DEF Story
    <3> QED
      BY <2>4, <3>1
  <2>6. Coherent(Story(s), streamJob[s])'
    BY <1>2, <1>6, <2>4, <2>5 DEF Coherent, Rising, Fits, vars, store, rows, thread
  <2> QED
    BY <1>1, <1>2, <1>4, <1>5, <1>6, <2>3, <2>6, OwnStep
<1> QED
  BY <1>7, <1>8

LEMMA SubscribeStep ==
  ASSUME StreamsIInv, NEW s \in Streams, SubscribeStream(s)
  PROVE  StreamsTypeOK' /\ StreamInv' /\ StoryInv'
<1>1. PICK j \in Jobs : j = streamJob[s] /\ born[j] # 0
  BY DEF StreamsIInv, StreamInv, SubscribeStream, GoStream
<1>2. /\ streamPc[s] = "read"
      /\ streamPc' = [streamPc EXCEPT ![s] = "subscribed"]
      /\ topic' = [topic EXCEPT ![s] = j] /\ queue' = [queue EXCEPT ![s] = <<>>]
      /\ UNCHANGED <<vars, streamJob, snapshot, sent>>
  BY <1>1 DEF SubscribeStream, GoStream, Bus!Subscribe
<1>3. /\ streamPc \in [Streams -> StreamSteps] /\ topic \in [Streams -> Jobs \cup {NoJob}]
      /\ queue \in [Streams -> Seq(Event)] /\ queue[s] = <<>> /\ sent[s] = <<>>
  BY <1>2 DEF StreamsIInv, StreamsTypeOK, Bus!BusTypeOK, StreamInv, Listening
<1>4. StreamsTypeOK'
  <2>1. queue' \in [Streams -> Seq(Event)]
    BY <1>2, <1>3
  <2> QED
    BY <1>2, <1>3, <2>1 DEF StreamsIInv, StreamsTypeOK, Bus!BusTypeOK, StreamSteps
<1>5. /\ streamPc'[s] = "subscribed" /\ topic'[s] = j /\ queue'[s] = <<>>
      /\ streamJob'[s] = j /\ sent'[s] = <<>> /\ Listening(s)' /\ snapshot'[s] = snapshot[s]
  BY <1>1, <1>2, <1>3 DEF Listening
<1>6. \A r \in Streams \ {s} :
        /\ streamPc'[r] = streamPc[r] /\ streamJob'[r] = streamJob[r] /\ topic'[r] = topic[r]
        /\ snapshot'[r] = snapshot[r] /\ sent'[r] = sent[r] /\ queue'[r] = queue[r]
  BY <1>2, <1>3
<1>7. [StreamsNext]_allVars
  BY DEF StreamsNext, StreamStep, Serve
<1>8. Story(s)' = Story(s)
  BY <1>2, <1>3, <1>5 DEF Story
<1>9. Coherent(Story(s), streamJob[s])'
  BY <1>1, <1>2, <1>5, <1>8 DEF StreamsIInv, StoryInv, Coherent, Rising, Fits, vars, store,
     rows, thread
<1> QED
  BY <1>1, <1>2, <1>4, <1>5, <1>6, <1>7, <1>9, OwnStep

\* The head of the queue moves to the end of what was sent: the story is the same.
LEMMA HeadMoves ==
  ASSUME NEW done \in Seq(Event), NEW waiting \in Seq(Event), waiting # <<>>
  PROVE  /\ Append(done, Head(waiting)) \in Seq(Event) /\ Tail(waiting) \in Seq(Event)
         /\ Append(done, Head(waiting)) \o Tail(waiting) = done \o waiting
         /\ Len(Append(done, Head(waiting))) <= Len(done \o waiting)
         /\ \A n \in 1..Len(Append(done, Head(waiting))) :
              Append(done, Head(waiting))[n] = (done \o waiting)[n]
<1> DEFINE left  == Append(done, Head(waiting)) \o Tail(waiting)
           right == done \o waiting
<1>1. Head(waiting) \in Event /\ Tail(waiting) \in Seq(Event) /\ Len(waiting) >= 1
      /\ Len(Tail(waiting)) = Len(waiting) - 1
  OBVIOUS
<1>2. Append(done, Head(waiting)) \in Seq(Event)
  BY <1>1
<1>3. left \in Seq(Event) /\ right \in Seq(Event) /\ Len(left) = Len(right)
      /\ Len(right) = Len(done) + Len(waiting)
  BY <1>1, <1>2
<1>4. ASSUME NEW n \in 1..Len(right) PROVE left[n] = right[n]
  <2>1. CASE n \in 1..Len(done)
    BY <1>1, <1>2, <2>1
  <2>2. CASE n = Len(done) + 1
    BY <1>1, <1>2, <2>2
  <2>3. CASE n > Len(done) + 1
    BY <1>1, <1>2, <1>3, <2>3
  <2> QED
    BY <1>3, <2>1, <2>2, <2>3
<1>5. left = right
  BY <1>3, <1>4
<1>6. /\ Len(Append(done, Head(waiting))) <= Len(right)
      /\ \A n \in 1..Len(Append(done, Head(waiting))) : Append(done, Head(waiting))[n] = right[n]
  <2>1. Len(Append(done, Head(waiting))) = Len(done) + 1
    BY <1>1
  <2>2. \A n \in 1..Len(done) + 1 : Append(done, Head(waiting))[n] = left[n]
    BY <1>1, <1>2
  <2> QED
    BY <1>1, <1>3, <1>5, <2>1, <2>2
<1> QED
  BY <1>1, <1>2, <1>5, <1>6

LEMMA UnitLaws ==
  ASSUME NEW q \in Seq(Event)
  PROVE  q \o <<>> = q /\ <<>> \o q = q
OBVIOUS

\* The generator ends and its finally block unsubscribes; what the client got is
\* the beginning of the story.
LEMMA CloseStep ==
  ASSUME StreamsIInv, [StreamsNext]_allVars, NEW s \in Streams, Listening(s),
         streamPc' = [streamPc EXCEPT ![s] = "closed"], Bus!Unsubscribe(s),
         NEW part \in Seq(Event), sent' = [sent EXCEPT ![s] = part],
         NEW told, told = Story(s), Len(part) <= Len(told), \A n \in 1..Len(part) : part[n] = told[n],
         UNCHANGED <<vars, streamJob, snapshot>>
  PROVE  StreamsTypeOK' /\ StreamInv' /\ StoryInv'
<1>1. PICK j \in Jobs : j = streamJob[s] /\ born[j] # 0
  BY DEF StreamsIInv, StreamInv, Listening
<1>2. /\ topic' = [topic EXCEPT ![s] = NoJob] /\ queue' = [queue EXCEPT ![s] = <<>>]
      /\ topic \in [Streams -> Jobs \cup {NoJob}] /\ queue \in [Streams -> Seq(Event)]
      /\ streamPc \in [Streams -> StreamSteps] /\ sent \in [Streams -> Seq(Event)]
  BY DEF Bus!Unsubscribe, StreamsIInv, StreamsTypeOK, Bus!BusTypeOK
<1>3. StreamsTypeOK'
  <2>1. queue' \in [Streams -> Seq(Event)] /\ sent' \in [Streams -> Seq(Event)]
    BY <1>2
  <2> QED
    BY <1>2, <2>1 DEF StreamsIInv, StreamsTypeOK, Bus!BusTypeOK, StreamSteps
<1>4. /\ streamPc'[s] = "closed" /\ streamJob'[s] = j /\ topic'[s] = NoJob /\ queue'[s] = <<>>
      /\ sent'[s] = part /\ ~Listening(s)'
  BY <1>1, <1>2 DEF Listening
<1>5. \A r \in Streams \ {s} :
        /\ streamPc'[r] = streamPc[r] /\ streamJob'[r] = streamJob[r] /\ topic'[r] = topic[r]
        /\ snapshot'[r] = snapshot[r] /\ sent'[r] = sent[r] /\ queue'[r] = queue[r]
  BY <1>2
<1>6. Story(s)' = part
  <2>1. Story(s)' = part \o <<>>
    BY <1>4 DEF Story
  <2> QED
    BY <2>1, UnitLaws
<1>7. Coherent(part, j)'
  BY <1>1, StoryShortened DEF Listening
<1>8. Coherent(Story(s), streamJob[s])'
  BY <1>4, <1>6, <1>7 DEF Coherent, Rising, Fits
<1> QED
  BY <1>1, <1>3, <1>4, <1>5, <1>8, OwnStep

\* The generator goes on; the story is the same.
LEMMA GoOnStep ==
  ASSUME StreamsIInv, [StreamsNext]_allVars, NEW s \in Streams, Listening(s),
         streamPc' = [streamPc EXCEPT ![s] = "streaming"], topic' = topic,
         NEW done \in Seq(Event), sent' = [sent EXCEPT ![s] = done],
         NEW waiting \in Seq(Event), queue' = [queue EXCEPT ![s] = waiting],
         Story(s) = done \o waiting,
         UNCHANGED <<vars, streamJob, snapshot>>
  PROVE  StreamsTypeOK' /\ StreamInv' /\ StoryInv'
<1>1. PICK j \in Jobs : j = streamJob[s] /\ born[j] # 0
  BY DEF StreamsIInv, StreamInv, Listening
<1>2. /\ topic[s] = j /\ queue \in [Streams -> Seq(Event)]
      /\ streamPc \in [Streams -> StreamSteps] /\ sent \in [Streams -> Seq(Event)]
  BY <1>1 DEF StreamsIInv, StreamInv, StreamsTypeOK, Bus!BusTypeOK
<1>3. StreamsTypeOK'
  <2>1. queue' \in [Streams -> Seq(Event)] /\ sent' \in [Streams -> Seq(Event)]
    BY <1>2
  <2> QED
    BY <1>2, <2>1 DEF StreamsIInv, StreamsTypeOK, Bus!BusTypeOK, StreamSteps
<1>4. /\ streamPc'[s] = "streaming" /\ streamJob'[s] = j /\ topic'[s] = j /\ queue'[s] = waiting
      /\ sent'[s] = done /\ Listening(s)'
  BY <1>1, <1>2 DEF Listening
<1>5. \A r \in Streams \ {s} :
        /\ streamPc'[r] = streamPc[r] /\ streamJob'[r] = streamJob[r] /\ topic'[r] = topic[r]
        /\ snapshot'[r] = snapshot[r] /\ sent'[r] = sent[r] /\ queue'[r] = queue[r]
  BY <1>2
<1>6. PICK told \in Seq(Event) : told = Story(s) /\ told = Story(s)'
  BY <1>4, StoryType DEF Story
<1>7. Coherent(told, j)'
  <2>1. streamPc[s] # "idle" /\ Len(told) <= Len(told) /\ \A n \in 1..Len(told) : told[n] = told[n]
    BY <1>6 DEF Listening
  <2> QED
    BY <1>1, <1>6, <2>1, StoryShortened
<1>8. Coherent(Story(s), streamJob[s])'
  BY <1>4, <1>6, <1>7 DEF Coherent, Rising, Fits
<1> QED
  BY <1>1, <1>3, <1>4, <1>5, <1>8, OwnStep

LEMMA SendStep ==
  ASSUME StreamsIInv, NEW s \in Streams, SendSnapshot(s)
  PROVE  StreamsTypeOK' /\ StreamInv' /\ StoryInv'
<1>1. [StreamsNext]_allVars
  BY DEF StreamsNext, StreamStep, Serve
<1>2. /\ streamPc[s] = "subscribed" /\ sent[s] = <<>> /\ Listening(s)
      /\ snapshot[s] \in Event /\ queue \in [Streams -> Seq(Event)]
      /\ UNCHANGED <<vars, streamJob, snapshot>>
      /\ sent' = [sent EXCEPT ![s] = Append(sent[s], snapshot[s])]
  BY DEF SendSnapshot, GoStream, Listening, StreamsIInv, StreamInv, StreamsTypeOK, Bus!BusTypeOK
<1>3. PICK part \in Seq(Event) : part = <<snapshot[s]>>
  <2>1. snapshot[s] \in Event
    BY <1>2
  <2>2. <<snapshot[s]>> \in Seq(Event)
    BY <2>1
  <2> QED
    BY <2>2
<1>4. Append(<<>>, snapshot[s]) = <<snapshot[s]>>
  BY <1>2
<1>5. sent' = [sent EXCEPT ![s] = part]
  BY <1>2, <1>3, <1>4
<1>6. PICK told \in Seq(Event) : told = Story(s) /\ told = part \o queue[s]
  BY <1>2, <1>3, StoryType DEF Story
<1>7. CASE snapshot[s].state \in Terminal
  <2>1. streamPc' = [streamPc EXCEPT ![s] = "closed"] /\ Bus!Unsubscribe(s)
    BY <1>7 DEF SendSnapshot, GoStream
  <2>2. queue[s] \in Seq(Event)
    BY <1>2
  <2>3. Len(part) <= Len(told) /\ \A n \in 1..Len(part) : part[n] = told[n]
    BY <1>6, <2>2
  <2> QED
    BY <1>1, <1>2, <1>5, <1>6, <2>1, <2>3, CloseStep
<1>8. CASE snapshot[s].state \notin Terminal
  <2>1. streamPc' = [streamPc EXCEPT ![s] = "streaming"] /\ topic' = topic /\ queue' = queue
    BY <1>8 DEF SendSnapshot, GoStream
  <2>2. PICK waiting \in Seq(Event) : waiting = queue[s]
    BY <1>2
  <2>3. queue' = [queue EXCEPT ![s] = waiting] /\ Story(s) = part \o waiting
    BY <1>2, <1>6, <2>1, <2>2
  <2> QED
    BY <1>1, <1>2, <1>5, <2>1, <2>3, GoOnStep
<1> QED
  BY <1>7, <1>8

LEMMA ForwardStep ==
  ASSUME StreamsIInv, NEW s \in Streams, Forward(s)
  PROVE  StreamsTypeOK' /\ StreamInv' /\ StoryInv'
<1>1. [StreamsNext]_allVars
  BY DEF StreamsNext, StreamStep, Serve
<1>2. /\ streamPc[s] = "streaming" /\ Listening(s) /\ queue[s] # <<>>
      /\ sent[s] \in Seq(Event) /\ queue[s] \in Seq(Event)
      /\ UNCHANGED <<vars, streamJob, snapshot>>
      /\ sent' = [sent EXCEPT ![s] = Append(sent[s], Head(queue[s]))]
      /\ Story(s) = sent[s] \o queue[s]
  BY DEF Forward, GoStream, Listening, StreamsIInv, StreamsTypeOK, Bus!BusTypeOK, Story
<1>3. PICK done \in Seq(Event), waiting \in Seq(Event) :
        done = Append(sent[s], Head(queue[s])) /\ waiting = Tail(queue[s])
  BY <1>2, HeadMoves
<1>4. PICK told \in Seq(Event) : told = Story(s)
  BY StoryType
<1>5. /\ told = done \o waiting /\ Len(done) <= Len(told)
      /\ \A n \in 1..Len(done) : done[n] = told[n]
  <2>1. PICK before \in Seq(Event), list \in Seq(Event) : before = sent[s] /\ list = queue[s]
    BY <1>2
  <2>2. list # <<>> /\ done = Append(before, Head(list)) /\ waiting = Tail(list)
        /\ told = before \o list
    BY <1>2, <1>3, <1>4, <2>1
  <2> QED
    BY <2>2, HeadMoves
<1>6. sent' = [sent EXCEPT ![s] = done]
  BY <1>2, <1>3
<1>7. CASE Head(queue[s]).state \in Terminal
  <2>1. streamPc' = [streamPc EXCEPT ![s] = "closed"] /\ Bus!Unsubscribe(s)
    BY <1>7 DEF Forward, GoStream
  <2> QED
    BY <1>1, <1>2, <1>4, <1>5, <1>6, <2>1, CloseStep
<1>8. CASE Head(queue[s]).state \notin Terminal
  <2>1. /\ streamPc' = [streamPc EXCEPT ![s] = "streaming"] /\ topic' = topic
        /\ queue' = [queue EXCEPT ![s] = waiting]
    BY <1>3, <1>8 DEF Forward, GoStream, Bus!Take
  <2> QED
    BY <1>1, <1>2, <1>4, <1>5, <1>6, <2>1, GoOnStep
<1> QED
  BY <1>7, <1>8

LEMMA DisconnectStep ==
  ASSUME StreamsIInv, NEW s \in Streams, Disconnect(s)
  PROVE  StreamsTypeOK' /\ StreamInv' /\ StoryInv'
<1>1. [StreamsNext]_allVars
  BY DEF StreamsNext, StreamStep
<1>2. /\ streamPc[s] = "streaming" /\ Listening(s)
      /\ streamPc' = [streamPc EXCEPT ![s] = "closed"] /\ Bus!Unsubscribe(s)
      /\ UNCHANGED <<vars, streamJob, snapshot, sent>>
      /\ sent \in [Streams -> Seq(Event)] /\ queue[s] \in Seq(Event)
      /\ Story(s) = sent[s] \o queue[s]
  BY DEF Disconnect, GoStream, Listening, StreamsIInv, StreamsTypeOK, Bus!BusTypeOK, Story
<1>3. PICK part \in Seq(Event) : part = sent[s]
  BY <1>2
<1>4. sent' = [sent EXCEPT ![s] = part]
  BY <1>2, <1>3
<1>5. PICK told \in Seq(Event) : told = Story(s)
  BY StoryType
<1>6. Len(part) <= Len(told) /\ \A n \in 1..Len(part) : part[n] = told[n]
  BY <1>2, <1>3, <1>5
<1> QED
  BY <1>1, <1>2, <1>4, <1>5, <1>6, CloseStep

\* A restart ends every stream that was opened and keeps what its client got.
LEMMA CrashStreamsStep ==
  ASSUME StreamsIInv, CrashStreams
  PROVE  StreamsTypeOK' /\ StreamInv' /\ StoryInv'
<1>1. [StreamsNext]_allVars
  BY DEF StreamsNext
<1>2. /\ topic' = [s \in Streams |-> NoJob] /\ queue' = [s \in Streams |-> <<>>]
      /\ streamPc' = [s \in Streams |-> IF streamPc[s] = "idle" THEN "idle" ELSE "closed"]
      /\ UNCHANGED <<streamJob, snapshot, sent>>
  BY DEF CrashStreams
<1>3. StreamsTypeOK'
  <2>1. queue' \in [Streams -> Seq(Event)]
    BY <1>2
  <2> QED
    BY <1>2, <2>1 DEF StreamsIInv, StreamsTypeOK, Bus!BusTypeOK, StreamSteps
<1>4. StreamInv'
  BY <1>1, <1>2, RunnerStep DEF StreamsIInv, StreamInv, Listening
<1>5. ASSUME NEW s \in Streams, streamPc[s] # "idle" PROVE Coherent(Story(s), streamJob[s])'
  <2>1. PICK part \in Seq(Event) : part = sent[s]
    BY DEF StreamsIInv, StreamsTypeOK
  <2>2. PICK told \in Seq(Event) : told = Story(s)
    BY StoryType
  <2>3. PICK j \in Jobs : j = streamJob[s]
    BY <1>5 DEF StreamsIInv, StreamInv
  <2>4. Len(part) <= Len(told) /\ \A n \in 1..Len(part) : part[n] = told[n]
    <3>1. CASE streamPc[s] \in {"read", "subscribed"}
      BY <2>1, <3>1 DEF StreamsIInv, StreamInv
    <3>2. CASE streamPc[s] \notin {"read", "subscribed"}
      <4>1. told = part \o queue[s] /\ queue[s] \in Seq(Event)
        BY <2>1, <2>2, <3>2 DEF Story, StreamsIInv, StreamsTypeOK, Bus!BusTypeOK
      <4> QED
        BY <4>1
    <3> QED
      BY <3>1, <3>2
  <2>5. Coherent(part, j)'
    BY <1>1, <1>5, <2>2, <2>3, <2>4, StoryShortened
  <2>6. Story(s)' = part
    <3>1. Story(s)' = part \o <<>>
      BY <1>2, <1>5, <2>1 DEF Story
    <3> QED
      BY <3>1, UnitLaws
  <2> QED
    BY <1>2, <2>3, <2>5, <2>6 DEF Coherent, Rising, Fits
<1>6. StoryInv'
  BY <1>2, <1>5 DEF StoryInv
<1> QED
  BY <1>3, <1>4, <1>6

LEMMA StreamsStep == StreamsIInv /\ [StreamsNext]_allVars => StreamsIInv'
<1> SUFFICES ASSUME StreamsIInv, [StreamsNext]_allVars
             PROVE  StreamsTypeOK' /\ StreamInv' /\ StoryInv'
  BY RunnerStep DEF StreamsIInv
<1>1. CASE Silent \/ UNCHANGED allVars
  BY <1>1, SilentStep DEF Silent, allVars
<1>2. CASE Announce
  BY <1>2, AnnounceStep
<1>3. CASE CrashStreams
  BY <1>3, CrashStreamsStep
<1>4. CASE StreamStep
  <2>1. ASSUME NEW s \in Streams, PollAgain(s) PROVE UNCHANGED streamVars
    BY <2>1 DEF PollAgain, allVars
  <2> QED
    BY <1>4, <2>1, OpenStep, ReadStep, SubscribeStep, SendStep, ForwardStep, DisconnectStep,
       SilentStep
       DEF StreamStep, Serve
<1> QED
  BY <1>1, <1>2, <1>3, <1>4 DEF StreamsNext

LEMMA StreamsAlways == StreamsSpec => []StreamsIInv
BY StreamsInitInv, StreamsStep, PTL DEF StreamsSpec

-----------------------------------------------------------------------------
(* Theorems.                                                               *)

\* Every variable of the streams keeps its type, for any number of jobs, users
\* and streams: the queues and what _job_events_stream sends hold events of jobs.
THEOREM StreamsTypeCorrect == StreamsSpec => []StreamsTypeOK
<1>1. StreamsIInv => StreamsTypeOK
  BY DEF StreamsIInv
<1> QED
  BY <1>1, StreamsAlways, PTL

\* subscribe and unsubscribe are balanced on every way out of the generator: a
\* queue is in a subscriber list exactly while its stream is open.
THEOREM QueuesAreNotLeaked == StreamsSpec => []ClosedIsUnsubscribed
<1>1. StreamsIInv => ClosedIsUnsubscribed
  BY JobRunnerAssumption DEF StreamsIInv, StreamInv, ClosedIsUnsubscribed, Listening
<1> QED
  BY <1>1, StreamsAlways, PTL

\* No client is told an outcome that the table does not confirm, snapshot or
\* event, with failing writes and restarts, until the job is deleted.
THEOREM ToldIsStored == StreamsSpec => []OutcomeIsStored
<1>1. StreamsIInv => OutcomeIsStored
  <2> SUFFICES ASSUME StreamsIInv, NEW s \in Streams, NEW n \in 1..Len(sent[s]),
                      sent[s][n].state \in Terminal, streamJob[s] \in Present
               PROVE  /\ rowState[streamJob[s]] = sent[s][n].state
                      /\ rowLast[streamJob[s]] = sent[s][n].points
    BY DEF OutcomeIsStored
  <2>1. sent[s] \in Seq(Event) /\ queue[s] \in Seq(Event)
    BY DEF StreamsIInv, StreamsTypeOK, Bus!BusTypeOK
  <2>2. streamPc[s] \notin {"idle", "open", "read", "subscribed"}
    BY DEF StreamsIInv, StreamInv
  <2>3. Story(s) = sent[s] \o queue[s] /\ Coherent(Story(s), streamJob[s])
    BY <2>2 DEF StreamsIInv, StoryInv, Story
  <2>4. n \in 1..Len(Story(s)) /\ Story(s)[n] = sent[s][n]
    <3>1. PICK before \in Seq(Event), list \in Seq(Event) : before = sent[s] /\ list = queue[s]
      BY <2>1
    <3>2. Story(s) = before \o list /\ n \in 1..Len(before) /\ sent[s][n] = before[n]
      BY <2>3, <3>1
    <3>3. n \in 1..Len(before \o list) /\ (before \o list)[n] = before[n]
      BY <3>2
    <3> QED
      BY <3>2, <3>3
  <2>5. Fits(sent[s][n], streamJob[s])
    BY <2>3, <2>4 DEF Coherent
  <2> QED
    BY <2>5 DEF Fits, Present
<1> QED
  BY <1>1, StreamsAlways, PTL

\* The progress a stream tells never goes back, from the snapshot through every
\* event of the job thread, whatever was published between the snapshot and its
\* sending.
THEOREM ToldProgressRises == StreamsSpec => []ProgressNeverGoesBack
<1>1. StreamsIInv => ProgressNeverGoesBack
  <2> SUFFICES ASSUME StreamsIInv, NEW s \in Streams PROVE Rising(sent[s] \o queue[s])
    BY DEF ProgressNeverGoesBack, Rising
  <2>1. sent[s] \in Seq(Event) /\ queue[s] \in Seq(Event) /\ snapshot[s] \in Event
    BY DEF StreamsIInv, StreamsTypeOK, Bus!BusTypeOK
  <2>2. CASE streamPc[s] = "idle"
    <3>1. sent[s] \o queue[s] = <<>>
      BY <2>2, UnitLaws DEF StreamsIInv, StreamInv, Listening
    <3> QED
      BY <3>1 DEF Rising
  <2>3. CASE streamPc[s] \in {"read", "subscribed"}
    <3>1. PICK told \in Seq(Event), part \in Seq(Event), j \in Jobs :
            /\ told = <<snapshot[s]>> \o queue[s] /\ part = queue[s] /\ j = streamJob[s]
            /\ Coherent(told, j)
      BY <2>1, <2>3, StoryType DEF StreamsIInv, StreamInv, StoryInv, Story
    <3>2. Len(part) + 1 <= Len(told) /\ \A n \in 1..Len(part) : part[n] = told[n + 1]
      BY <2>1, <3>1
    <3>3. Coherent(part, j)
      BY <3>1, <3>2, CoherentPart
    <3>4. sent[s] \o queue[s] = part
      BY <2>3, <3>1, UnitLaws DEF StreamsIInv, StreamInv
    <3> QED
      BY <3>3, <3>4 DEF Coherent
  <2>4. CASE streamPc[s] \notin {"idle", "read", "subscribed"}
    BY <2>4 DEF StreamsIInv, StoryInv, Story, Coherent
  <2> QED
    BY <2>2, <2>3, <2>4
<1> QED
  BY <1>1, StreamsAlways, PTL
=============================================================================
