# Formal model of the NenaBot backend

TLA+ specifications of the concurrent core of this repository, TLC
configurations that check them on small instances, and TLAPS proofs of what
should hold for every instance. All references are to files under `src/`.

## The system

The backend is one Python process: FastAPI routes (most of them plain `def`,
run in a thread pool), an asyncio event loop (event streams, the IonVision
websocket), one daemon thread per started job, and a few camera threads. They
share the attributes of one `OrchestratorService`, the storage adapter, and the
adapters of the robot, the camera and the scanner.

| Component | State | Operations | Interacts with |
|---|---|---|---|
| Job execution (`orchestrator.py` `run_job`, `stop_job`, `_execute_job`) | `_running_job_id`, `_stop_requested`, `_pixel_paths`, `_starting_waypoints`, the `Job` object of the thread | POST /job, POST /robot/stop, DELETE /job/{id}, POST /robot/move, the job thread | storage, robot, scan, event streams |
| Event streams (`subscribe`, `unsubscribe`, `_publish_event`; `routes.py` `_job_events_stream`) | `_job_subscribers`, one queue per stream | GET /job/{id}/events, publish | job thread, requests, storage |
| Scan of a waypoint (`_wait_for_scan_results_processed`, `_poll_latest_dataobject`, the websocket handlers) | two `threading.Event`s, `_ionvision_ws_initialized` | start, wait, fetch, record | IonVision over HTTP and websocket |
| Job storage (`storage.py`, `memory_storage.py`, `database.py`) | tables `jobs`, `waypoints`, `measurements`, `job_images` | save, update, delete, prune | every other part |
| Calibration (`calibration_action`, mapping file) | session, mapping, `robot_mapping.json` | start, four captures, the last of which solves, stores and publishes | camera, robot |
| Camera capture (`camera_vision.py`) | capture thread, latest frame, stream count, checkerboard cache | ensure, frame, streams, status, health check, close | routes, calibration |
| Websocket link (`WebSocketAdapter`) | connection, listen task, handlers | connect, listen, disconnect | scan |
| Robot (`robot.py`) | connection, command queue, pose | connect, move, wait, stop, pause | job thread, requests |
| Path planning (`populate_pixel_path_from_batteries`, `is_reachable_mm`) | none; reads the mapping | POST /path/populate, the checks of POST /job | routes, calibration |

Hard behaviours, and what makes each part correct:

* **Job execution.** Nothing protects `_running_job_id` and `_stop_requested`:
  each read and write is a step between which any other thread may run. Correct
  means: one thread drives the arm; a stop reaches the job it was meant for and
  no other; a job that ends frees the slot; rows tell the truth about the job.
* **Event streams.** Three threads meet: the one that publishes, the one that
  handles the request, the event loop. Correct means: what a client is told is
  in order and agrees with the table, and every stream ends.
* **Scan.** Events and results carry no scan identifier, and arrive when the
  device likes. Correct means: a result belongs to the waypoint it is stored
  with, no wake-up is lost, no wait is for ever.
* **Storage.** One `sqlite3` connection for all threads, `prune_jobs` without
  the lock and by several threads at once, two transactions per waypoint, restarts.
  Correct means: measurement rows and progress agree, deleted jobs stay deleted once
  that is committed, retention deletes only what is beyond the limit.
* **Calibration.** Sections without the lock between reading the session and
  changing it; the file is written in place. Correct means: a session that is full
  is ended, a mapping has its points in the order of the targets and belongs to
  the path and resolution of the intrinsics in use, a restart brings no other mapping.
* **Camera.** A capture thread that ends itself for idleness while others need it,
  a shutdown while chunks are still served. Correct means: one thread owns the
  device, frames die with their thread, the device is released when unused.
* **Path planning.** Corners in any order, rounding at the edges, a mapping that is
  replaced between two conversions, the perspective of the camera. Correct means: the
  perimeter is followed with as many points as its length asks for, and no accepted
  waypoint is out of reach.
* **Robot.** A queue that a stop clears while another thread waits for arrival.

`PROJECT.json` lists the hazards at their lines, with the properties that cover them.

## Modules

| Module | Models |
|---|---|
| `JobRunner` | job execution with the rows it leaves in storage |
| `JobLifecycle` | the abstract life of a job, as GET /job/{id} shows it |
| `EventBus` | the subscriber lists |
| `JobStreams` | `JobRunner` + `EventBus` + the generator of a stream |
| `ScanSession` | the IonVision scan of each waypoint of one job |
| `JobStore` | the shared SQLite connection, statement by statement |
| `Calibration` | calibration requests, the mapping and its file |
| `CameraCapture` | the capture thread and everybody who uses it |
| `PathPlanning` | from detected batteries to an accepted job |
| `JobRunner_proofs` | theorems about `JobRunner`: types, the slot, completed jobs, stops |
| `JobLifecycle_proofs` | `JobRunner` implements `JobLifecycle`; progress and running rows when storage does not fail |
| `JobStreams_proofs` | what streams tell, and that their queues are not leaked |
| `Calibration_proofs` | full sessions, intrinsics, restarts and the careful operator |
| `CameraCapture_proofs` | one thread, live frames, counted streams, no error of its own |
| `ScanSession_proofs` | own results, none lost |
| `JobStore_proofs` | what returned is durable, whole jobs, backed progress, retention |
| `PathPlanning_proofs` | the walk along the perimeter, corners, limit and places of the points, reach of accepted jobs |
| `MCJobRunner`, `MCJobStreams`, `MCJobStore` | symmetry sets for TLC |
| `MCCalibration` | three intrinsics, two of them with the same path and resolution |
| `MCPathPlanning` | the batteries, views of the board and ring of the instance |

`JobStreams` EXTENDS `JobRunner` and adds to its three publishing actions what they
put on the queues. `JobRunner` instantiates `JobLifecycle` with a
refinement mapping. `ScanSession` is the inside of `JobRunner`'s action
`ScanWaypoint`, `JobStore` the inside of its storage steps. `Calibration` and
`PathPlanning` meet in the mapping: what one publishes is a `Recalibrate` of the other.

### JobRunner

| State | Code |
|---|---|
| `rowState`, `rowLast`, `rowMeas`, `born` | columns `state`, `last_point_processed`, rows of `measurements`, order of `created_at` |
| `pruned` | rows that a prune_jobs has deleted and nobody committed yet: readers miss them, a crash restores them |
| `running`, `stopRequested`, `contexts` | `_running_job_id`, `_stop_requested`, keys of `_pixel_paths`/`_starting_waypoints` |
| `reqPc`, `reqJob` | a POST /job inside `create_job` and `run_job` |
| `pc`, `jobState`, `jobLast`, `index` | the job thread and its `Job` object |
| `excess`, `victims` | locals of `prune_jobs` |
| `stopPc`, `stopSeen` | a POST /robot/stop inside `stop_job`, and the job it found running |
| `arm` | the job whose last commanded pose the arm is still free to reach |

Request: `SubmitJob`, `SaveJobImage` (create_job), `LookupJob`, `CheckSlot`, `ClearStop`,
`ClaimSlot`, `PersistRunning`, `SpawnWorker`, `PublishStarted` (run_job, statement
by statement). Thread: `CheckStop`, `PublishWaypointStarted`, `MoveArm`,
`AwaitArrival`, `ScanWaypoint`, `SaveMeasurement`, `PersistProgress`,
`PublishWaypointCompleted` in the loop, `ReturnMove`, `AwaitReturn` after it,
`ReleaseSlot`, `ResetStop`, `PersistFinal`, the prune actions and
`PublishTerminal` in the finally block. `StopCheck`, `StopFlag`, `StopRobot` are
stop_job; `DeleteJob`, `ManualMove` and `Crash` come from outside.

A storage call is one step, because the adapter holds its lock; prune_jobs of the
SQLite adapter is four (count, selection, deletion, commit), because it does not. Between
the last two every reader misses the jobs (`Present`), the next commit of any thread
makes that final (`Commit`), a crash or a rollback undoes it. With `WritesMayFail` a
write may raise, as sqlite3 does when the disk is full or another process holds the file.
A write that raises leaves nothing of its own here, but may roll an open deletion back;
one that raises half-way, in the open transaction of the connection all threads share,
is the subject of `JobStore`. `Crash` is the death and restart of the process: service
attributes, threads and requests are gone, SQLite rows are as of the last commit,
in-memory rows are lost. A robot command may
be refused; a wait for arrival succeeds only while `arm` is the job's own, and may
always time out.

`JobLifecycle` has the same `pruned`: a job that is `Shown` as deleted stays so, except
that `Restore` may bring back one whose deletion was not committed.

Left out: coordinates, the contents of images, options, timestamps, the text of errors, the
validation of a request before create_job (a request that fails it changes
nothing), and the sleeps.

### EventBus and JobStreams

A stream is a connection: `OpenStream` is the route, `ReadSnapshot`,
`SubscribeStream`, `SendSnapshot` and `Forward`/`PollAgain` are the generator
between its awaits and yields, `Disconnect` is a client that goes away. Events
carry their type, the state and the number of points. Queues are unbounded as in
the code; they stay finite because a job publishes finitely many events.

### ScanSession

One job thread walks through `PathLen` waypoints: `ClearProcessed`,
`ClearStopped`, `StartScan`, the wait (`HearProcessed`, `GiveUpWaiting`), the
fetch (`PollLatest`, `GiveUpPolling`), `Record`. `Dispatch` is the websocket listen
loop with the two handlers, `DropLink` its end, after which nobody reconnects.
The device is external: it finishes, processes or stops a scan and tells the
websocket. Scans are numbered, which the code cannot see; `waypointOf` remembers
for which waypoint each was started. `mock` is chosen at the start: the mock
adapter emits the event inside `start_new_scan`. `prompt`, chosen at the start too, says that answers and
events come before the code's deadlines (5 s HTTP, 45 s wait, 30 s fetch);
without it any of them may expire first and any answer may be lost.

### JobStore

| State | Code |
|---|---|
| `visible`, `durable` | the rows as the connection shows them, and as of the last commit |
| `lock` | `Database._lock` |
| `todo`, `target` | the statements a thread has still to execute, in transactions, and their job |
| `stage` | whether a client is a request, or where it is in the thread of a job: before or in the loop, in the except clause, in the finally block, in prune_jobs |
| `last`, `failed` | `last_point_processed` and `state == "failed"` of the `Job` objects |
| `excess`, `ids` | the locals of each thread's `prune_jobs` |
| `acked`, `saved`, `broken`, `started`, `deleted` | history: what returned operations promised; jobs whose `save_job` returned or raised; jobs that were run; jobs that a user deleted |
| `stale` | history: a row went away between the count and the selection of a prune_jobs |

`CreateJob` and `DeleteJob` start an operation of a request as the list of its
statements. `RunJob` stores the state and makes the client the thread of the job;
`RecordWaypoint` is the end of the loop body, which counts the waypoint in the `Job`
object, inserts the measurement and updates the row; `StoreOutcome` is the update of the
finally block, which a thread reaches from the loop, for any reason, or from the except
clause after a write of the loop raised. It stores the count as the object has it, also
of a waypoint whose insert failed. `Execute` runs the next statement, `FailStatement` and
`RefuseOrphan` end the operation with an exception, which rolls nothing back.
`PruneCount` to `PruneCommit` are the statements of the prune_jobs with which each
thread ends, each of which takes the lock for itself; since the slot was freed before, the
next job may be created, run and end meanwhile, so several prune at once. `Crash` keeps
what is durable. SQLite is external: which statements fail, what a failure undoes, and
what the foreign keys refuse and cascade.

### Calibration

| State | Code |
|---|---|
| `session`, `captured` | `_calibration_session`, and `captured_robot_points` of every session object |
| `mapping`, `intrinsics`, `file` | `_mapping_data`, the contents of the intrinsics file the camera adapter loaded, `robot_mapping.json` |
| `pc`, `held`, `pose`, `solution` | a request in `calibration_action` and its locals |
| `arm`, `told`, `solo` | the operator: where the tip stands, what the last answer said |

A capture is `ReadSession`, `ReadPose`, `AppendPoint`, `CountPoints` and then either
`NameTarget` or `Solve`, `OpenFile`, `FlushFile`, `Publish`; `Abandon` is the
exception. `OpenFile` truncates the file, so that a crash or failure before
`FlushFile` leaves it torn. `Restart` loads it, with the same intrinsics or others. `Load`
compares what the file records of them, path and resolution: the constant `Profile`,
which contents that were generated anew at the same path share.

### CameraCapture

| State | Code |
|---|---|
| `current`, `running`, `failed` | `_capture_thread`, `_capture_running`, `_capture_error` |
| `access`, `frame`, `cache`, `streams` | `_capture_last_access`, `_latest_frame`, `_checkerboard_status_cache`, `_active_streams` |
| `capture` | where each capture thread is in `_capture_loop` |
| `pc`, `streaming` | a request or stream between `_ensure_capture_running` and its answer |
| `ping`, `closer`, `joined` | GET /health in `ping()`, the lifespan in `close()` |

`OpenDevice` to `EndThread` are the capture thread, from the open to the end
of its finally block; `EnsureRunning`, `AwaitReady`, `Touch`, `FetchFrame`,
`Process`, `Resume`, `CloseStream` a user; `RequestClose` to `ResetAccess` the
shutdown. Time is a choice: an access grows old, a wait ends before or after its
event.

### PathPlanning

`MeasureBattery`, `SortBatteries`, `SkipEdge`, `SampleEdge`, `RefuseDensity`,
`FailPopulate` and `AnswerPath` are POST /path/populate; `ConvertPoint`, `FailConvert` and
`CheckJob` are POST /job with the answer; `Recalibrate` replaces the mapping between any
two of them. `Normalize`, `SampleCount`, `Samples`, `FindUnreachable` are the pure
functions of the code as operators, with integers and fractions in place of floating point.
Where the ray through a pixel meets the board (`_plane_point_from_pixel`) is the constant
`Board`, of a mapping and a point of the image: any lens and any perspective, and rays that
miss the board (`FailPopulate`, `FailConvert`). All that is assumed of it is that different
corners lie at different places of the board.
The reference definitions they are checked against do not compute a walk: a corner's successor
has every other corner on one side, each point is followed by one an n-th of its edge away,
a count is refused when the whole perimeter needs more than the limit.

## Runs

| Run | Instance | Shows |
|---|---|---|
| `runner_one_client` | in-memory adapter, 2 jobs (one dry), 2 waypoints, 1 poster, 1 stop, retention 1, fair | `TypeOK`, `DriverHoldsSlot`, `ProgressIsMeasured`, `RunningIsOwned`, `OneStopOneJob`, `SlotIsReturned` |
| `runner_faults` | SQLite, 2 jobs (one dry), 2 waypoints, retention 1, failing writes, 1 restart | `CompletedIsMeasured`, refinement of `JobLifecycle` |
| `streams_all` | 1 job, 1 stop, 1 stream, 1 restart, fair | `StreamsTypeOK`, `ProgressNeverGoesBack`, `OutcomeIsStored`, `ClosedIsUnsubscribed`, `LiveStreamEnds` |
| `scan_all` | 3 waypoints, prompt and late devices, link may drop, fair | `ScanTypeOK`, `OwnResultWhenPrompt`, `ProcessedIsRecorded`, `ScansEnd` |
| `calibration_all` | 2 requests, 4 targets, 3 intrinsics, 3 sessions, 1 restart | `TypeOK`, `FullSessionIsEnding`, `MappingMatchesProfile`, `PointsMatchTargets`, `RestartKeepsMapping` |
| `camera_all` | 2 users, 1 health check, 2 thread starts, 2 uses, fair | `TypeOK`, `KnownThread`, `FrameIsLive`, `NoErrorOfItsOwn`, `StreamsCounted`, `CaptureEnds` |
| `store_all` | 2 requests or threads, 2 jobs, 1 waypoint, retention 1, 2 faults | `TypeOK`, `JobsAreWhole`, `ReturnedIsDurable`, `NoOrphans`, `RetentionKeepsNewest`, `ProgressIsBacked` |
| `planning_all` | 8 shapes, up to 2 batteries, 2 densities, 3 views of the board, limit 16 | `TypeOK`, `PerimeterFromNearest`, `EveryCornerMeasured`, `PointsSpreadEvenly`, `LimitIsExact`, `AcceptedIsReachable` |
| `runner_two_clients` | 2 posters | violates `OneDriver` |
| `runner_stop_lost` | 2 jobs, 1 stop | violates `StopIsHonoured` |
| `store_stale_count` | 2 threads, 2 jobs, retention 1, no fault | violates `KeepsTheYoung` |
| `streams_hang` | 1 job, 1 stream | violates `StreamEnds` |

Bounds. Two jobs are the least in which one ends while the next starts, and
in which retention of one keeps one and deletes one. Two waypoints
distinguish the first, a middle stop and the last; the streams need one because
their order properties are about a snapshot, one waypoint and the outcome. One
stop call suffices for a stop that hits the wrong job. One stream suffices because
streams share nothing but the publisher. `MaxCrashes` bounds restarts and
`PathLen` every counter. Jobs, clients and stops that are not told apart form
symmetry sets, except in the runs of liveness properties. `runner_one_client` runs
on the in-memory adapter (`ForeignKeys = FALSE`), whose `prune_jobs` is one step, and
`runner_faults` on SQLite, with its statements apart; the five invariants of the
former are also proved for both adapters.

In `store_all` two clients, each a request or a job thread that prunes at its end, are
what it takes to commit another's statements or to prune twice at once. Two faults are
an exception in the loop and one in the finally block after it; what a crash would find is
`durable`, and the properties look at it in every state. A third job, created between the
statements of a prune_jobs, is left to the proof of `RetentionKeepsNewest`.
In `calibration_all` two requests overlap in every way; four is the code's own number
of targets, and three sessions let one replace another that is being ended. The three
intrinsics are an old and a new one at the same path and resolution, and one elsewhere.
In `camera_all` two thread starts are one that ends for idleness and one that
follows; two uses are two requests, two streams, or a stream of two chunks
around an end of the capture. `MaxStarts` and `MaxUses` keep the runs finite; the proofs do
without them. In `planning_all` the shapes are those the code treats differently
(convex, crossing as given, notched, a line, a repeated corner, no extent). The
views are planes in perspective, in tenths of a millimetre: one in reach, one half out of
it, and one so flat that the lower rows of the image lie beyond a horizon that the lens
bends. The limit is one that two small batteries stay below and two large ones exceed.

What the properties leave out. `SlotIsReturned` and `LiveStreamEnds` are checked with
writes that succeed: an exception of `update_job_state` in `run_job` leaves the slot claimed with no thread
to free it, and one in the finally block loses the terminal event.
`ProgressIsMeasured` too: when the measurement cannot be written, the final
update counts it nevertheless (`last_point_processed` is set before the insert).
`JobsAreWhole` excepts jobs whose `save_job` raised: what it had inserted is
committed by whoever commits next. `RetentionKeepsNewest` excepts behaviours in which a
row went away between the count and the selection of a prune_jobs (`stale`): by a deletion,
by another prune_jobs, or by a rollback. Then the code does delete a job within the limit
(`store_stale_count`). `ProgressIsBacked` excepts the one waypoint at which a failed job
failed, which the finally block counts without its measurement. `NoErrorOfItsOwn` speaks of behaviours without GET /health, whose own
open of the device may make a capture fail. `CaptureEnds` leaves out a service that
shuts down: `close()` sets the last access back to "never" while a chunk may have
started another thread. `PointsMatchTargets` and `RestartKeepsMapping` speak of one
careful operator: two who capture at once put their points into one session in any order.
`LimitIsExact` and half of `PointsSpreadEvenly` ask for a mapping that is not
replaced on the way, and `PerimeterFromNearest` for the walk of convex batteries only.
`PointsSpreadEvenly` does not say that neighbouring points are at most the asked distance
apart, and they need not be: their number comes from the length of the edge on the board,
their places are equally far apart on the image, and the perspective makes the far gaps of
an edge wider than the near ones. `MappingMatchesProfile` does not say that the mapping in
use was solved with the intrinsics in use: `_load_mapping_file` compares their path and
resolution (orchestrator.py:1082-1096) and not what they contain. Intrinsics that were generated
anew at the default path, as docs/vision-calibration.md:94 asks for after a change of lens or
focus, pass with the old mapping; `calibration_all` has such a pair. `OneStopOneJob` does
not say which job: a call that saw one job and stops the next counts as its stop.
`StreamsCounted` takes it that each stream is opened before it is closed, and closed once.

Fairness. `Worker`, `Request` and `StopCall` are weakly fair: a started thread
keeps being scheduled, every wait of the orchestrator has a timeout, and the model
has no step a thread could be kept from by another for ever. The retry loops inside
the vendored Dobot library are assumed to return. No fairness is assumed of
users, of the device or of the websocket. `Forward` and the other steps of the
generator are weakly fair because the event loop serves every open connection.
In `CameraCapture` the capture thread and the requests are weakly fair for the same reason, time
passes (`GrowOld`), and a stream is closed some day; that the status is no longer
asked for, that another request comes, or that a device opens is not assumed.

### What the violations say

1. `run_job` (orchestrator.py:195-199) is check-then-act. Two POSTs at the same
   time start two threads on one arm. The trace: both pass `CheckSlot`, both claim.
2. The finally block (440-441) frees the slot before it clears the stop flag. A
   job may start in between, be stopped, and lose its stop.
3. `_job_events_stream` reads the job (routes.py:335) and subscribes later (344).
   An outcome published in between is lost, and the stream polls for ever.
4. `prune_jobs` counts (storage.py:139), selects (145) and deletes (154) without the
   lock, after its job gave the slot back (orchestrator.py:440, 451). With a limit of one
   and two jobs, both threads count one too many; the first deletes job 1, the second
   selects the oldest that is left, job 2, and deletes it. A DELETE /job/{id} in the
   same gap does the same.
Other places where the code allows what one might not expect are hazards without
a property in `PROJECT.json`, each with what the model does there: a stop between
the check and the move lets the arm move once more, `job:started` may come after
the events of the thread, a refused POST leaves its context behind, overlapping
captures raise an IndexError or end a session that was just started. A scan event that comes after its wait is taken for
the next scan's: `OwnResultWhenPrompt` therefore speaks of prompt devices.

## Proofs

The proof modules prove, from the named assumption on the constants of their
module alone unless stated:

* `TypeCorrect`: `Spec => []TypeOK`. `TypeOK` is not inductive, because the index of
  a waypoint is incremented at the end of the loop body; `TypeInv` adds that in the
  body the index is short of `PathLen` (`IndexInBody`).
* `OneDriverWhenSerialised`: under the hypothesis that all clients are one,
  `Spec => [](OneDriver /\ DriverHoldsSlot)`. The hypothesis cannot be dropped
  (`runner_two_clients`). The inductive invariant `SlotIInv` adds `RequestOwnsJob`
  (a request between create_job and the start of its thread has a job of its own,
  whose thread does not exist yet) and `SlotInv` (a request that saw the slot free
  still finds it free when it claims it, and keeps it until its thread runs; a
  thread keeps it until `ReleaseSlot`).
* `CompletedMeansMeasured`: `Spec => []CompletedIsMeasured`, for any number of
  clients, with failing writes and restarts. `MeasuredInv` says of every job how
  many measurement rows it has at each place of its thread (`Counted`), that a
  thread in the loop has state "running", and that a row says "completed" only if
  the thread said so.

* `JobRunnerImplementsLifecycle`: `Spec => LifecycleSpec`, unconditionally. A step
  that updates the row of a job is a step of the lifecycle only because the thread
  knows where the job stands; `LifeInv` says that until the outcome is stored the
  row is absent or "running", that it is behind the Job object by at most one
  waypoint, and that "completed" and "stopped" go with a full and a partial path.
  Inserts map to `Create`, `PersistRunning` to `Start`, `PersistProgress` to `Advance`,
  `PersistFinal` to `Finish`, deletions, any other commit and the restart of the in-memory
  adapter to `Delete`, `PruneDelete` to `Prune`, a crash or a failing write that undoes it
  to `Restore`; everything else is a stutter. The jobs a reader sees (`Present`) are those
  the lifecycle lists.
* `ProgressMeansMeasured`: `Spec => []ProgressIsMeasured` if `~WritesMayFail`, with
  restarts. `ProgressInv` relates the measurement rows to the progress column and to
  the Job object until the thread has ended.
* `RunningMeansOwned`: `Spec => []RunningIsOwned` if `~WritesMayFail` and
  `MaxCrashes = 0`. Neither hypothesis can be dropped: a failing final update, or a
  restart, leaves a row running that nobody will ever change.
* `OneStopStopsOneJob`: `Spec => []OneStopOneJob` if all clients are one,
  `MaxCrashes = 0` and the stop calls are finitely many (the property counts them).
  `StopIInv` counts a raised flag, and a driving job that saw it, as a job that is
  already stopped (`Spent`); a call pays for it when it raises the flag. Posts have to be
  serialised, since run_job clears the flag before it claims the slot: a second post
  may find the flag gone and the slot taken, and the thread that frees the slot clears
  the flag of a job that is not its own. A crash would end a call that raised the flag
  without its answer, and the property counts answers.

* `Calibration_proofs`. `TypeCorrect`: `Spec => []TypeOK`; that a solved mapping has
  exactly one point per target needs that solving ends in a shape error otherwise.
  `FullSessionAlwaysEnds`: inductive with `TypeOK`, since the request that adds the
  last point is at "count". `MappingAlwaysMatches` adds `SolvedForCamera`: a request about to publish holds
  a mapping of the intrinsics in use, as a restart that changes them ends all requests;
  what is loaded has at least their `Profile`.
  `CarefulOperatorGetsTargets`: `Spec => []PointsMatchTargets` for any number of
  targets. `Careful` says that one request at a time works on the current session,
  that every session so far holds its first targets in order, that between
  requests the operator was told the next one, and that mapping, file and
  solutions are ordered. `RestartBringsNoOther`: `Spec => []RestartKeepsMapping`.
  `FileFollows` adds to `Careful` that the file holds the mapping in memory or none,
  except while the one request stands between writing the file and publishing: then it
  holds the mapping to be published, or none.
* `CameraCapture_proofs`, without fairness and for any finite set of users:
  `TypeCorrect`, `StreamsAreCounted`, `ThreadIsKnown`, `FramesAreLive`. `Counts` adds
  that an idle user has no stream open; the range of `streams` in `TypeOK` follows from
  the count. `ThreadsOK` adds that known threads were started, that close()
  detaches a thread that is dead, and that a frame is on offer only between the
  announcement of its thread and `ForgetFrame`. `NeverInItsOwnWay`:
  `Spec => []NoErrorOfItsOwn`, by `Unhindered`: without health checks no thread is
  refused the device, since the thread that opens it is the only one that lives and
  every other one has released it.
* `ScanSession_proofs`: `TypeCorrect`, `ResultsAreOwn` (`Spec => []OwnResultWhenPrompt`)
  and `NoResultIsLost` (`Spec => []ProcessedIsRecorded`), for a path of any length. The
  argument is that nothing of one scan is left when the next starts, although no message
  names a scan. `Local` says what each place of the thread knows whether the websocket is
  up or not (the events are cleared before the start; a wake-up means that the last
  result is that of the last scan). `Linked` says where the scan of the current
  waypoint can be while the websocket is up: at the device, waiting to be processed, in
  a message or in an event, one of them and only during the wait (`UnderWay`).
* `JobStreams_proofs`: `StreamsTypeCorrect`, `QueuesAreNotLeaked`
  (`StreamsSpec => []ClosedIsUnsubscribed`), `ToldIsStored` (`[]OutcomeIsStored`) and
  `ToldProgressRises` (`[]ProgressNeverGoesBack`), without hypotheses: failing writes,
  restarts and any number of users and streams. A step of `JobStreams` is a step of
  `JobRunner` or leaves its variables alone (`StreamsStepIsRunnerStep`), so `LifeInv`
  carries over. `StoryInv` is about the whole `Story` of a stream, what it was told
  followed by what is queued, from the snapshot on: it rises, is not ahead of the Job
  object (`Fits`), and an outcome in it is the row's. `SettledInv` says that between the
  final update and the publication the row is what the Job object says.
* `JobStore_proofs`, for any number of threads, jobs, waypoints and faults. For
  `ReturnedStays` (`Spec => []ReturnedIsDurable`) and `RowsHaveJobs` (`Spec => []NoOrphans`)
  the argument does not need the lock. Every transaction ends in a commit
  (`Transactions`), so an operation returns when what is visible is durable; only
  the transaction that creates a job resets its rows (`Later`), and a job that is
  being created has promised nothing and is nobody else's target (`Fresh`). What
  was promised is therefore kept both in what is visible and in what is
  durable (`Safe`), which failures and crashes exchange.

  The others do need it. `ControlInv` says where each client is: which suffix of which
  statements it has left at its stage (`Forms`), that a job is saved by one client and run
  by one thread (`Alone`), and that only the holder of the lock has a transaction open
  (`Locks`). prune_jobs takes the lock anew for each statement; what it commits is
  therefore never half of an operation that is still running, only what one left that
  raised.
  `JobsStayWhole` (`Spec => []JobsAreWhole`): while a job is being saved its rows are
  those of the statements done (`SavedSoFar`), and else it is whole or broken
  (`WholeInv`).
  `ProgressStaysBacked` (`Spec => []ProgressIsBacked`): `ProgressInv` says that rows count
  no waypoint more than they measure unless they say "failed" (`Backed`), and that the
  `Job` object of a running thread is at most one ahead of the rows, and only while the
  insert is under way or has failed (`Driven`, `Behind`). A thread left by an exception of
  the loop has marked its object as failed before the finally block stores the count.
  `RetentionKeepsTheYoungest` (`Spec => []RetentionKeepsNewest`): as long as no row went
  away in between, what each prune_jobs counted is still stored when it selects, so
  what it selects has `MaxJobs` younger jobs, for good (`Kept`; the counting is `OldOnes`).
  That holds for all threads that prune at once.
  `StoreTypeCorrect` (`Spec => []TypeOK`) collects from all of these that nothing counts more
  waypoints or measurements than the path has.

* `PathPlanning_proofs`, for any batteries, distances, mappings, ring and limit:
  `PlanningAssumption` asks of them no more than their types and a positive distance, so a
  battery may repeat corners, have no area or only one corner that differs. `BoardAssumption`
  says of the view that different corners that are seen lie at different places, which the
  intersection of rays with a plane gives; nothing else is assumed of it. `TypeCorrect` (`Spec => []TypeOK`) adds to the types where the points
  lie (`Places`), for which sorting by angle and rotating to the start pose must give
  sequences: that every place of the sorted one is taken is a counting argument
  (`EveryPlaceIsTaken`), since equal angles are ordered by their index.
  `WalkIsPerimeter` (`Spec => []PerimeterFromNearest`): a corner of a convex battery has all
  others on one side of the edge to the next corner of the perimeter, therefore their mean too
  (`MeanIsInside`, by sums). A corner that lay in the angle between these two, as seen from
  the mean, would be in the triangle of the three, and no edge could begin there with all
  corners on one side (`NothingBetween`, from `NoCornerInCone`). So the next in the order of
  atan2 is the next on the perimeter, also across the angle pi (`OrderIsTour`).
  `AcceptedStaysInReach` (`Spec => []AcceptedIsReachable`): `Foretold` says that the
  accepted waypoints are those the check looked at, and that flags and waypoints come from
  the mapping in use while none is published. `CornersAreMeasured`
  (`Spec => []EveryCornerMeasured`): a corner behind the walk has a first point or is followed
  by an equal one (`BehindIsMeasured`); when the walk is over, all corners being equal to their
  successors leaves only one (`OneCornerOnly`).
  `LimitRefusesTheExcess` (`Spec => []LimitIsExact`): `Counted` says that the path is as
  long as the counts of the edges passed, as a partial sum of what all batteries need; sums of
  natural numbers only grow, so the first edge over the limit already decides. `PointsFollowThePerimeter`
  (`Spec => []PointsSpreadEvenly`): `Spaced` says what each point has to its successor (`Linked`: the
  next of its edge, the first of the edge that follows, or the first of its battery) and that it
  divides its own edge (`OnItsEdge`); the rest is arithmetic of fractions.

`WorkerMovesItself`, `WorkerSetsItsState`, `WorkerFrame`, `WorkerKeepsOthers` and
`WorkerAndSlot` are the lemmas that say what a step of a thread leaves alone. The
invariants were checked with TLC on the instances of the runs before they were proved.

Only model-checked: `SlotIsReturned`, `LiveStreamEnds`, `ScansEnd` and `CaptureEnds`. They
are liveness under fairness, which is out of reach of the prover. Every invariant of a passing
run and the refinement are theorems. Induction over data is not possible here; the one
fold a proof needs, `SumFunction`, is shown to add up partial sums by the least counterexample
(`SumIsPartialSum`).

## Plan

Done: all modules of the table above. Left, in this order:

1. The refinement between `JobStore` and the storage steps of `JobRunner`, with
   half-done writes in the jobs that run.
2. `WebSocketLink`: connect, listen, disconnect, handlers, start-up and shutdown.
3. `RobotArm`: connection attempts, queue, pause, resume, wait for arrival.
4. `evaluate_scan_data` against a reference definition.
5. The images of the in-memory adapter.

## Not modelled

* Start-up and configuration: done once, before the first request.
* Request schemas and image endpoints: validation, formatting and drawing without
  state of their own.
* The websocket link beyond the loss of the connection and the dispatch of the two
  scan events; the robot adapter beyond move, wait, stop and reach. Both are in the plan.
* `evaluate_scan_data`: its result is stored and never read back by the backend.
* Images of the in-memory adapter: `save_job_image` does not ask for the job.
* The mock robot and camera, which stand in for hardware and always succeed.
* Floating-point rounding in path planning, what lens and perspective a camera has (any is
  allowed), a conversion that mixes two mappings, and the pixel work of the camera adapter.
* The vendored Dobot library, with the Qt headers it was built with. The program is
  written in Python (`app/`, 6 564 lines, of which the models cover about a quarter; the
  rest is mostly schemas, image processing, mocks, device dialects and
  logging). All C and C++ files of the repository are those headers of a third
  party: the backend does not compile them, nothing of its behaviour is in them, and none is modelled.

## How to run

    tlc -config RunnerOneClient.cfg MCJobRunner.tla
    tlapm JobRunner_proofs.tla

The other proof modules alike. In PROJECT.json each run names its module and configuration.
