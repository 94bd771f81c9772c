----------------------------- MODULE JobRunner -----------------------------
(***************************************************************************)
(* Job execution in app/services/orchestrator.py: POST /job requests that  *)
(* create a job and run it, the daemon thread that executes each started   *)
(* job, POST /robot/stop calls, DELETE /job/{id}, manual moves, and the    *)
(* rows all of them leave in the storage adapter.                          *)
(*                                                                         *)
(* run_job, stop_job and _execute_job share _running_job_id and            *)
(* _stop_requested without a lock, so every read and every write of them   *)
(* is a step of its own; a storage call is one step because the adapter    *)
(* holds its RLock (or, for prune_jobs of the SQLite adapter, one step per *)
(* statement and one for the commit, because it does not). A write that    *)
(* raises is taken to leave nothing of its own behind; what it may leave   *)
(* in the open transaction is the subject of JobStore.                     *)
(***************************************************************************)
EXTENDS Integers, Sequences, FiniteSets

CONSTANTS
  Jobs,           \* job identifiers; each POST /job uses a fresh one
  NoJob,          \* Python's None in _running_job_id
  Clients,        \* users posting jobs, each one request at a time
  Stoppers,       \* POST /robot/stop calls, each made at most once
  DryJobs,        \* the jobs posted with dryRun
  PathLen,        \* number of waypoints of a job
  MaxJobs,        \* NENABOT_MAX_JOBS, 0 when retention is off
  ForeignKeys,    \* TRUE: StorageAdapter on SQLite, FALSE: InMemoryStorageAdapter
  WritesMayFail,  \* TRUE: a storage write may raise (disk full, database locked)
  MaxCrashes      \* bound on how often the process dies and is restarted

ASSUME JobRunnerAssumption ==
  /\ IsFiniteSet(Jobs)
  /\ NoJob \notin Jobs
  /\ DryJobs \subseteq Jobs
  /\ PathLen \in Nat \ {0}          \* validate_job_waypoints refuses an empty path
  /\ MaxJobs \in Nat
  /\ ForeignKeys \in BOOLEAN
  /\ WritesMayFail \in BOOLEAN
  /\ MaxCrashes \in Nat

VARIABLES
  \* the jobs and measurements tables
  rowState,       \* jobs.state, or "absent" when there is no row
  rowLast,        \* jobs.last_point_processed
  rowMeas,        \* waypoint_index of the job's measurement rows, oldest first
  born,           \* rank of jobs.created_at, 0 before the job is created
  pruned,         \* jobs prune_jobs has deleted without a commit yet: every reader
                  \* misses them, but a crash or a rollback brings their rows back
  \* attributes of OrchestratorService
  running,        \* _running_job_id
  stopRequested,  \* _stop_requested
  contexts,       \* keys of _pixel_paths and _starting_waypoints
  \* POST /job requests
  reqPc, reqJob,
  \* job threads and the Job object each one owns
  pc,             \* where the thread of a job is
  jobState,       \* job.state
  jobLast,        \* job.last_point_processed
  index,          \* index of the waypoint being processed
  excess, victims,\* locals of prune_jobs
  \* POST /robot/stop calls
  stopPc, stopSeen,
  \* the robot
  arm,            \* the job whose commanded pose the arm is free to reach
  crashes

rows    == <<rowState, rowLast, rowMeas>>
store   == <<rows, born, pruned>>
service == <<running, stopRequested, contexts>>
request == <<reqPc, reqJob>>
thread  == <<pc, jobState, jobLast, index>>
prune   == <<excess, victims>>
stop    == <<stopPc, stopSeen>>
vars    == <<store, service, request, thread, prune, stop, arm, crashes>>

Terminal  == {"completed", "failed", "stopped"}
States    == {"created", "running"} \cup Terminal
\* The jobs that a SELECT finds.
Present   == {j \in Jobs \ pruned : rowState[j] # "absent"}

ReqSteps  == {"idle", "image", "lookup", "check", "clear", "claim", "persist", "spawn", "publish"}
StopSteps == {"idle", "flag", "halt", "done", "refused"}
\* Steps of the for loop and of _return_job_to_start: the thread drives the robot.
LoopSteps == {"check", "announce", "move", "arrive", "scan", "save", "progress",
              "report", "return", "returning"}
\* Steps of the finally block.
ExitSteps == {"release", "resetstop", "final", "count", "select", "delete", "commit", "publish"}
PcSteps   == {"none", "done", "dead"} \cup LoopSteps \cup ExitSteps

Driving(j) == pc[j] \in LoopSteps

Init ==
  /\ rowState = [j \in Jobs |-> "absent"]
  /\ rowLast = [j \in Jobs |-> 0]
  /\ rowMeas = [j \in Jobs |-> <<>>]
  /\ born = [j \in Jobs |-> 0]
  /\ pruned = {}
  /\ running = NoJob
  /\ stopRequested = FALSE
  /\ contexts = {}
  /\ reqPc = [c \in Clients |-> "idle"]
  /\ reqJob = [c \in Clients |-> NoJob]
  /\ pc = [j \in Jobs |-> "none"]
  /\ jobState = [j \in Jobs |-> "created"]
  /\ jobLast = [j \in Jobs |-> 0]
  /\ index = [j \in Jobs |-> 0]
  /\ excess = [j \in Jobs |-> 0]
  /\ victims = [j \in Jobs |-> {}]
  /\ stopPc = [s \in Stoppers |-> "idle"]
  /\ stopSeen = [s \in Stoppers |-> NoJob]
  /\ arm = NoJob
  /\ crashes = 0

-----------------------------------------------------------------------------
(* Storage operations, shared by the actions below.                        *)

\* Deliberately wrong variants of the definitions below carry a suffix after an
\* underscore; no specification uses them. Each shows that a property notices.

\* A transaction that leaves the given columns, and its commit: all threads share
\* the connection, so it also makes the open deletion of a prune_jobs final.
Commit(states, lasts, measurements) ==
  /\ rowState' = [j \in Jobs |-> IF j \in pruned THEN "absent" ELSE states[j]]
  /\ rowLast' = [j \in Jobs |-> IF j \in pruned THEN 0 ELSE lasts[j]]
  /\ rowMeas' = [j \in Jobs |-> IF j \in pruned THEN <<>> ELSE measurements[j]]
  /\ pruned' = {}

\* A write that raises; SQLite may roll the open transaction back.
FailWrite ==
  /\ WritesMayFail
  /\ pruned' \in {pruned, {}}
  /\ UNCHANGED <<rows, born>>

\* Wrong: an upsert, which brings a deleted row back.
UpdateRow_Upsert(j, state, last) ==
  /\ rowState' = [rowState EXCEPT ![j] = state]
  /\ rowLast' = [rowLast EXCEPT ![j] = last]
  /\ pruned' = {}
  /\ UNCHANGED <<rowMeas, born>>

\* update_job_state: an UPDATE, which touches nothing when the row is gone.
UpdateRow(j, state, last) ==
  /\ IF j \in Present
     THEN Commit([rowState EXCEPT ![j] = state], [rowLast EXCEPT ![j] = last], rowMeas)
     ELSE Commit(rowState, rowLast, rowMeas)
  /\ UNCHANGED born

\* DELETE FROM jobs; the measurement rows go with the job (ON DELETE CASCADE).
DeleteRows(S) ==
  /\ Commit([j \in Jobs |-> IF j \in S THEN "absent" ELSE rowState[j]],
            [j \in Jobs |-> IF j \in S THEN 0 ELSE rowLast[j]],
            [j \in Jobs |-> IF j \in S THEN <<>> ELSE rowMeas[j]])
  /\ UNCHANGED born

\* The first n rows ORDER BY created_at ASC.
Oldest(n) ==
  {j \in Present : Cardinality({k \in Present : born[k] < born[j]}) < n}

-----------------------------------------------------------------------------
(* POST /job: routes.create_job, then create_job and run_job.              *)

GoReq(c, from, to) ==
  /\ reqPc[c] = from
  /\ reqPc' = [reqPc EXCEPT ![c] = to]

\* The service's create_job: a fresh id, save_job, and the pixel path and start
\* pose remembered for the thread. (When save_job raises nothing is left.)
SubmitJob(c, j) ==
  /\ born[j] = 0
  /\ GoReq(c, "idle", "image")
  /\ reqJob' = [reqJob EXCEPT ![c] = j]
  /\ Commit([rowState EXCEPT ![j] = "created"], rowLast, rowMeas)
  /\ born' = [born EXCEPT ![j] = 1 + Cardinality({k \in Jobs : born[k] # 0})]
  /\ contexts' = contexts \cup {j}
  /\ UNCHANGED <<running, stopRequested, thread, prune, stop, arm, crashes>>

\* save_job_image, when an image was posted. The INSERT breaks the foreign key when
\* the row is gone, and the request ends with an error.
SaveJobImage(c) ==
  /\ \/ GoReq(c, "image", "lookup") /\ UNCHANGED store
     \/ /\ reqJob[c] \in Present \/ ~ForeignKeys
        /\ GoReq(c, "image", "lookup")
        /\ Commit(rowState, rowLast, rowMeas) /\ UNCHANGED born
     \/ reqJob[c] \notin Present /\ ForeignKeys /\ GoReq(c, "image", "idle") /\ UNCHANGED store
     \/ GoReq(c, "image", "idle") /\ FailWrite
  /\ UNCHANGED <<service, reqJob, thread, prune, stop, arm, crashes>>

\* get_job at the head of run_job, which raises when the row was deleted.
LookupJob(c) ==
  /\ GoReq(c, "lookup", IF reqJob[c] \in Present THEN "check" ELSE "idle")
  /\ UNCHANGED <<store, service, reqJob, thread, prune, stop, arm, crashes>>

\* Wrong: run_job without the check for a running job.
CheckSlot_Unchecked(c) ==
  /\ GoReq(c, "check", "clear")
  /\ UNCHANGED <<store, service, reqJob, thread, prune, stop, arm, crashes>>

\* if self._running_job_id: raise RuntimeError. The job stays in state "created".
CheckSlot(c) ==
  /\ IF running = NoJob THEN GoReq(c, "check", "clear") ELSE GoReq(c, "check", "idle")
  /\ UNCHANGED <<store, service, reqJob, thread, prune, stop, arm, crashes>>

\* Wrong: run_job relies on the reset in the finally block of the job before.
ClearStop_Kept(c) ==
  /\ GoReq(c, "clear", "claim")
  /\ UNCHANGED <<store, service, reqJob, thread, prune, stop, arm, crashes>>

ClearStop(c) ==
  /\ GoReq(c, "clear", "claim")
  /\ stopRequested' = FALSE
  /\ UNCHANGED <<store, running, contexts, reqJob, thread, prune, stop, arm, crashes>>

ClaimSlot(c) ==
  /\ GoReq(c, "claim", "persist")
  /\ running' = reqJob[c]
  /\ UNCHANGED <<store, stopRequested, contexts, reqJob, thread, prune, stop, arm, crashes>>

\* update_job_state(job_id, "running", ...); if it raises, the slot stays claimed.
PersistRunning(c) ==
  /\ \/ GoReq(c, "persist", "spawn") /\ UpdateRow(reqJob[c], "running", 0)
     \/ GoReq(c, "persist", "idle") /\ FailWrite
  /\ UNCHANGED <<service, reqJob, thread, prune, stop, arm, crashes>>

SpawnWorker(c) ==
  /\ GoReq(c, "spawn", "publish")
  /\ pc' = [pc EXCEPT ![reqJob[c]] = "check"]
  /\ jobState' = [jobState EXCEPT ![reqJob[c]] = "running"]
  /\ UNCHANGED <<store, service, reqJob, jobLast, index, prune, stop, arm, crashes>>

\* job:started goes out after the thread was started, not before.
PublishStarted(c) ==
  /\ GoReq(c, "publish", "idle")
  /\ UNCHANGED <<store, service, reqJob, thread, prune, stop, arm, crashes>>

-----------------------------------------------------------------------------
(* _execute_job: the loop over the waypoints.                              *)

Go(j, from, to) ==
  /\ pc[j] = from
  /\ pc' = [pc EXCEPT ![j] = to]

\* Wrong: an exception ends the thread without the finally block.
Fail_Uncaught(j, from) ==
  /\ Go(j, from, "dead")
  /\ jobState' = [jobState EXCEPT ![j] = "failed"]

\* An exception of the loop body: the except clause, then the finally block.
Fail(j, from) ==
  /\ Go(j, from, "release")
  /\ jobState' = [jobState EXCEPT ![j] = "failed"]

\* Wrong: the loop runs once more than there are waypoints.
CheckStop_PastTheEnd(j) ==
  /\ Go(j, "check", IF index[j] <= PathLen THEN "announce" ELSE "return")
  /\ UNCHANGED <<store, service, request, jobState, jobLast, index, prune, stop, arm, crashes>>

CheckStop(j) ==
  /\ \/ /\ index[j] < PathLen /\ stopRequested
        /\ Go(j, "check", "release")
        /\ jobState' = [jobState EXCEPT ![j] = "stopped"]
     \/ /\ index[j] < PathLen /\ ~stopRequested
        /\ Go(j, "check", "announce")
        /\ UNCHANGED jobState
     \/ /\ index[j] = PathLen
        /\ Go(j, "check", "return")
        /\ UNCHANGED jobState
  /\ UNCHANGED <<store, service, request, jobLast, index, prune, stop, arm, crashes>>

\* job:waypoint_started; a dry run then only sleeps before it records the point.
PublishWaypointStarted(j) ==
  /\ Go(j, "announce", IF j \in DryJobs THEN "save" ELSE "move")
  /\ UNCHANGED <<store, service, request, jobState, jobLast, index, prune, stop, arm, crashes>>

MoveArm(j) ==
  /\ \/ Go(j, "move", "arrive") /\ arm' = j /\ UNCHANGED jobState
     \/ Fail(j, "move") /\ UNCHANGED arm
  /\ UNCHANGED <<store, service, request, jobLast, index, prune, stop, crashes>>

\* wait_for_position: the pose is reached only if nobody sent the arm elsewhere
\* or emptied its command queue; otherwise, or on bad poses, it times out.
AwaitArrival(j) ==
  /\ \/ arm = j /\ Go(j, "arrive", "scan") /\ UNCHANGED jobState
     \/ Fail(j, "arrive")
  /\ UNCHANGED <<store, service, request, jobLast, index, prune, stop, arm, crashes>>

\* The IonVision scan; every failure of it only leaves scan_result at None.
ScanWaypoint(j) ==
  /\ Go(j, "scan", "save")
  /\ UNCHANGED <<store, service, request, jobState, jobLast, index, prune, stop, arm, crashes>>

\* Wrong: the number of points is the index of the last one.
SaveMeasurement_Uncounted(j) ==
  /\ j \in Present
  /\ Go(j, "save", "progress")
  /\ jobLast' = [jobLast EXCEPT ![j] = index[j]]
  /\ Commit(rowState, rowLast, [rowMeas EXCEPT ![j] = Append(@, index[j])])
  /\ UNCHANGED <<born, service, request, jobState, index, prune, stop, arm, crashes>>

\* Wrong: a measurement that cannot be written is skipped.
SaveMeasurement_Swallowed(j) ==
  /\ Go(j, "save", "progress")
  /\ jobLast' = [jobLast EXCEPT ![j] = index[j] + 1]
  /\ \/ j \in Present /\ Commit(rowState, rowLast, [rowMeas EXCEPT ![j] = Append(@, index[j])])
     \/ (j \notin Present \/ WritesMayFail) /\ UNCHANGED <<rows, pruned>>
  /\ UNCHANGED <<born, service, request, jobState, index, prune, stop, arm, crashes>>

\* The measurement is counted in the Job object, then inserted. The INSERT breaks
\* the foreign key when the row is gone; the in-memory adapter ignores the call.
SaveMeasurement(j) ==
  /\ jobLast' = [jobLast EXCEPT ![j] = index[j] + 1]
  /\ \/ /\ j \in Present
        /\ Go(j, "save", "progress")
        /\ Commit(rowState, rowLast, [rowMeas EXCEPT ![j] = Append(@, index[j])])
        /\ UNCHANGED <<born, jobState>>
     \/ /\ j \notin Present /\ ~ForeignKeys
        /\ Go(j, "save", "progress")
        /\ UNCHANGED <<store, jobState>>
     \/ j \notin Present /\ ForeignKeys /\ Fail(j, "save") /\ UNCHANGED store
     \/ Fail(j, "save") /\ FailWrite
  /\ UNCHANGED <<service, request, index, prune, stop, arm, crashes>>

\* Wrong: progress that cannot be written is skipped.
PersistProgress_Swallowed(j) ==
  /\ Go(j, "progress", "report")
  /\ UpdateRow(j, jobState[j], jobLast[j]) \/ FailWrite
  /\ UNCHANGED <<service, request, jobState, jobLast, index, prune, stop, arm, crashes>>

PersistProgress(j) ==
  /\ \/ /\ Go(j, "progress", "report")
        /\ UpdateRow(j, jobState[j], jobLast[j])
        /\ UNCHANGED jobState
     \/ Fail(j, "progress") /\ FailWrite
  /\ UNCHANGED <<service, request, jobLast, index, prune, stop, arm, crashes>>

PublishWaypointCompleted(j) ==
  /\ Go(j, "report", "check")
  /\ index' = [index EXCEPT ![j] = @ + 1]
  /\ UNCHANGED <<store, service, request, jobState, jobLast, prune, stop, arm, crashes>>

\* _return_job_to_start: nothing to do in a dry run or without a start pose;
\* a refused move is only logged.
ReturnMove(j) ==
  /\ \/ /\ j \in contexts \ DryJobs
        /\ Go(j, "return", "returning")
        /\ arm' = j
        /\ UNCHANGED jobState
     \/ /\ Go(j, "return", "release")
        /\ jobState' = [jobState EXCEPT ![j] = "completed"]
        /\ UNCHANGED arm
  /\ UNCHANGED <<store, service, request, jobLast, index, prune, stop, crashes>>

\* Whether the arm got back or not, the job is completed.
AwaitReturn(j) ==
  /\ Go(j, "returning", "release")
  /\ jobState' = [jobState EXCEPT ![j] = "completed"]
  /\ UNCHANGED <<store, service, request, jobLast, index, prune, stop, arm, crashes>>

-----------------------------------------------------------------------------
(* _execute_job: the finally block.                                        *)

\* Wrong: the slot of a finished job is never given back.
ReleaseSlot_Kept(j) ==
  /\ Go(j, "release", "resetstop")
  /\ UNCHANGED <<store, service, request, jobState, jobLast, index, prune, stop, arm, crashes>>

ReleaseSlot(j) ==
  /\ Go(j, "release", "resetstop")
  /\ running' = NoJob
  /\ UNCHANGED <<store, stopRequested, contexts, request, jobState, jobLast, index, prune,
                 stop, arm, crashes>>

ResetStop(j) ==
  /\ Go(j, "resetstop", "final")
  /\ stopRequested' = FALSE
  /\ UNCHANGED <<store, running, contexts, request, jobState, jobLast, index, prune, stop,
                 arm, crashes>>

\* Wrong: the outcome is announced but not stored.
PersistFinal_NotStored(j) ==
  /\ contexts' = contexts \ {j}
  /\ Go(j, "final", IF MaxJobs > 0 THEN "count" ELSE "publish")
  /\ UNCHANGED <<store, running, stopRequested, request, jobState, jobLast, index, prune, stop,
                 arm, crashes>>

\* The pixel path and start pose are dropped, then the outcome is stored. An
\* exception here ends the thread: nothing is pruned or published any more.
PersistFinal(j) ==
  /\ contexts' = contexts \ {j}
  /\ \/ /\ Go(j, "final", IF MaxJobs > 0 THEN "count" ELSE "publish")
        /\ UpdateRow(j, jobState[j], jobLast[j])
     \/ Go(j, "final", "dead") /\ FailWrite
  /\ UNCHANGED <<running, stopRequested, request, jobState, jobLast, index, prune, stop, arm,
                 crashes>>

Excess == Cardinality(Present) - MaxJobs

\* SELECT COUNT(*): the first of the unlocked statements of prune_jobs.
PruneCount(j) ==
  /\ ForeignKeys
  /\ \/ Excess <= 0 /\ Go(j, "count", "publish") /\ UNCHANGED excess
     \/ Excess > 0 /\ Go(j, "count", "select") /\ excess' = [excess EXCEPT ![j] = Excess]
  /\ UNCHANGED <<store, service, request, jobState, jobLast, index, victims, stop, arm, crashes>>

PruneSelect(j) ==
  /\ Go(j, "select", IF Oldest(excess[j]) = {} THEN "publish" ELSE "delete")
  /\ victims' = [victims EXCEPT ![j] = Oldest(excess[j])]
  /\ excess' = [excess EXCEPT ![j] = 0]
  /\ UNCHANGED <<store, service, request, jobState, jobLast, index, stop, arm, crashes>>

PruneDelete(j) ==
  /\ ForeignKeys
  /\ \/ /\ Go(j, "delete", "commit")
        /\ pruned' = pruned \cup (victims[j] \cap Present)
        /\ UNCHANGED <<rows, born>>
     \/ Go(j, "delete", "dead") /\ FailWrite
  /\ victims' = [victims EXCEPT ![j] = {}]
  /\ UNCHANGED <<service, request, jobState, jobLast, index, excess, stop, arm, crashes>>

PruneCommit(j) ==
  /\ \/ /\ Go(j, "commit", "publish")
        /\ Commit(rowState, rowLast, rowMeas) /\ UNCHANGED born
     \/ Go(j, "commit", "dead") /\ FailWrite
  /\ UNCHANGED <<service, request, jobState, jobLast, index, prune, stop, arm, crashes>>

\* prune_jobs of the in-memory adapter holds its lock throughout.
PruneAtomically(j) ==
  /\ ~ForeignKeys
  /\ Go(j, "count", "publish")
  /\ DeleteRows(Oldest(Excess))
  /\ UNCHANGED <<service, request, jobState, jobLast, index, prune, stop, arm, crashes>>

PublishTerminal(j) ==
  /\ Go(j, "publish", "done")
  /\ UNCHANGED <<store, service, request, jobState, jobLast, index, prune, stop, arm, crashes>>

-----------------------------------------------------------------------------
(* POST /robot/stop: stop_job.                                             *)

StopCheck(s) ==
  /\ stopPc[s] = "idle"
  /\ stopPc' = [stopPc EXCEPT ![s] = IF running = NoJob THEN "refused" ELSE "flag"]
  /\ stopSeen' = [stopSeen EXCEPT ![s] = running]
  /\ UNCHANGED <<store, service, request, thread, prune, arm, crashes>>

StopFlag(s) ==
  /\ stopPc[s] = "flag"
  /\ stopPc' = [stopPc EXCEPT ![s] = "halt"]
  /\ stopRequested' = TRUE
  /\ UNCHANGED <<store, running, contexts, request, thread, prune, stopSeen, arm, crashes>>

\* robot.stop() empties the command queue; a move already executing, or sent
\* outside the queue, may still finish. Then the call returns True.
StopRobot(s) ==
  /\ stopPc[s] = "halt"
  /\ stopPc' = [stopPc EXCEPT ![s] = "done"]
  /\ arm' \in {arm, NoJob}
  /\ UNCHANGED <<store, service, request, thread, prune, stopSeen, crashes>>

-----------------------------------------------------------------------------
(* The other requests that touch the same state, and the end of the process. *)

\* DELETE /job/{id}, which does not ask whether the job is running, and commits even
\* when there is no such job.
DeleteJob(j) ==
  /\ DeleteRows({j})
  /\ UNCHANGED <<service, request, thread, prune, stop, arm, crashes>>

\* POST /robot/move, which does not ask either.
ManualMove ==
  /\ arm # NoJob
  /\ arm' = NoJob
  /\ UNCHANGED <<store, service, request, thread, prune, stop, crashes>>

\* The process dies and is started again: threads, requests and the attributes of
\* the service are gone, the SQLite rows are as of the last commit.
Crash ==
  /\ crashes < MaxCrashes
  /\ crashes' = crashes + 1
  /\ running' = NoJob
  /\ stopRequested' = FALSE
  /\ contexts' = {}
  /\ reqPc' = [c \in Clients |-> "idle"]
  /\ pc' = [j \in Jobs |-> IF pc[j] \in {"none", "done"} THEN pc[j] ELSE "dead"]
  /\ excess' = [j \in Jobs |-> 0]
  /\ victims' = [j \in Jobs |-> {}]
  /\ stopPc' = [s \in Stoppers |-> IF stopPc[s] \in {"flag", "halt"} THEN "refused" ELSE stopPc[s]]
  /\ arm' = NoJob
  /\ IF ForeignKeys THEN pruned' = {} /\ UNCHANGED <<rows, born>> ELSE DeleteRows(Jobs)
  /\ UNCHANGED <<reqJob, jobState, jobLast, index, stopSeen>>

-----------------------------------------------------------------------------
Request(c) ==
  \/ SaveJobImage(c) \/ LookupJob(c) \/ CheckSlot(c) \/ ClearStop(c) \/ ClaimSlot(c)
  \/ PersistRunning(c) \/ SpawnWorker(c)

Worker(j) ==
  \/ CheckStop(j) \/ MoveArm(j) \/ AwaitArrival(j) \/ ScanWaypoint(j)
  \/ SaveMeasurement(j) \/ PersistProgress(j) \/ ReturnMove(j) \/ AwaitReturn(j)
  \/ ReleaseSlot(j) \/ ResetStop(j) \/ PersistFinal(j)
  \/ PruneCount(j) \/ PruneSelect(j) \/ PruneDelete(j) \/ PruneCommit(j)
  \/ PruneAtomically(j)

\* The steps that publish an event to the subscribers of a job.
WorkerPublish(j) ==
  PublishWaypointStarted(j) \/ PublishWaypointCompleted(j) \/ PublishTerminal(j)

StopCall(s) == StopFlag(s) \/ StopRobot(s)

Outside ==
  \/ \E c \in Clients, j \in Jobs : SubmitJob(c, j)
  \/ \E s \in Stoppers : StopCheck(s)
  \/ \E j \in Jobs : DeleteJob(j)
  \/ ManualMove

\* Nothing is left to do: every job was posted and every thread has ended.
Quiescent ==
  /\ \A j \in Jobs : born[j] # 0 /\ pc[j] \in {"none", "done", "dead"}
  /\ \A c \in Clients : reqPc[c] = "idle"
  /\ \A s \in Stoppers : stopPc[s] \in {"done", "refused"}
  /\ UNCHANGED vars

Next ==
  \/ \E c \in Clients : Request(c) \/ PublishStarted(c)
  \/ \E j \in Jobs : Worker(j) \/ WorkerPublish(j)
  \/ \E s \in Stoppers : StopCall(s)
  \/ Outside
  \/ Crash
  \/ Quiescent

\* Threads the interpreter has started keep being scheduled, and every wait in
\* them has a timeout. Nothing makes a user post, stop, move or delete.
Fairness ==
  /\ \A c \in Clients : WF_vars(Request(c) \/ PublishStarted(c))
  /\ \A j \in Jobs : WF_vars(Worker(j) \/ WorkerPublish(j))
  /\ \A s \in Stoppers : WF_vars(StopCall(s))

Spec == Init /\ [][Next]_vars

FairSpec == Spec /\ Fairness

-----------------------------------------------------------------------------
(* Properties                                                              *)

TypeOK ==
  /\ rowState \in [Jobs -> States \cup {"absent"}]
  /\ rowLast \in [Jobs -> 0..PathLen]
  /\ rowMeas \in [Jobs -> Seq(0..PathLen - 1)]
  /\ born \in [Jobs -> Nat]
  /\ pruned \subseteq Jobs /\ (ForeignKeys \/ pruned = {})
  /\ running \in Jobs \cup {NoJob}
  /\ stopRequested \in BOOLEAN
  /\ contexts \subseteq Jobs
  /\ reqPc \in [Clients -> ReqSteps]
  /\ reqJob \in [Clients -> Jobs \cup {NoJob}]
  /\ pc \in [Jobs -> PcSteps]
  /\ jobState \in [Jobs -> States]
  /\ jobLast \in [Jobs -> 0..PathLen]
  /\ index \in [Jobs -> 0..PathLen]
  /\ excess \in [Jobs -> Nat]
  /\ victims \in [Jobs -> SUBSET Jobs]
  /\ stopPc \in [Stoppers -> StopSteps]
  /\ stopSeen \in [Stoppers -> Jobs \cup {NoJob}]
  /\ arm \in Jobs \cup {NoJob}
  /\ crashes \in 0..MaxCrashes

\* No two job threads drive the robot at the same time: what the check in
\* run_job ("Another job is already running") is there for.
OneDriver ==
  \A i, j \in Jobs : Driving(i) /\ Driving(j) => i = j

\* While a thread drives the robot, _running_job_id names its job: GET /status
\* says busy, run_job refuses, and stop_job does not answer "nothing to stop".
DriverHoldsSlot ==
  \A j \in Jobs : Driving(j) => running = j

\* The progress column and the measurement rows of a job agree, although they
\* are written by different transactions: the rows are those of the first
\* waypoints in order, the column is behind by at most the row just inserted,
\* and once an outcome is stored they are equal.
ProgressIsMeasured ==
  \A j \in Jobs : rowState[j] # "absent" =>
    LET n == Len(rowMeas[j]) IN
    /\ \A i \in 1..n : rowMeas[j][i] = i - 1
    /\ rowLast[j] <= n /\ n <= rowLast[j] + 1
    /\ rowState[j] \in Terminal => rowLast[j] = n

\* A job stored as completed has one measurement for every waypoint, in path
\* order, even when writes fail and the process crashes.
CompletedIsMeasured ==
  \A j \in Jobs : rowState[j] = "completed" =>
    rowMeas[j] = [i \in 1..PathLen |-> i - 1]

\* A row that says running belongs to a request that is about to start its
\* thread or to a thread that will still store the outcome: no path through
\* _execute_job leaves a job running for ever.
RunningIsOwned ==
  \A j \in Jobs : rowState[j] = "running" =>
    \/ pc[j] \in LoopSteps \cup {"release", "resetstop", "final"}
    \/ \E c \in Clients : reqJob[c] = j /\ reqPc[c] = "spawn"

\* A stop call stops at most one job: _stop_requested left over from one job
\* never stops the next one.
OneStopOneJob ==
  Cardinality({j \in Jobs : jobState[j] = "stopped"})
    <= Cardinality({s \in Stoppers : stopPc[s] \in {"halt", "done"}})

\* A stop is not lost: once a call that saw job j running has returned, and as
\* long as j is in its loop, the flag that will end the loop is set.
StopIsHonoured ==
  \A s \in Stoppers, j \in Jobs :
    stopPc[s] = "done" /\ stopSeen[s] = j /\ Driving(j) => stopRequested

\* A claimed slot is given back and the outcome of its job is stored, however
\* the moves and the scans go: one job never blocks all later ones.
SlotIsReturned ==
  \A j \in Jobs : running = j ~> (running # j /\ rowState[j] # "running")

\* The rows implement the lifecycle promised to API readers.
Lifecycle == INSTANCE JobLifecycle WITH
  phase <- [j \in Jobs |-> IF rowState[j] # "absent" THEN rowState[j]
                           ELSE IF born[j] = 0 THEN "new" ELSE "deleted"],
  points <- rowLast, pruned <- pruned

LifecycleSpec == Lifecycle!Spec
=============================================================================
