---------------------------- MODULE Calibration ----------------------------
(***************************************************************************)
(* POST /calibration (calibration_action in app/services/orchestrator.py): *)
(* "start" opens a session, four times "capture" adds the pose of the arm  *)
(* to it, the last one solves the camera-to-robot mapping, writes it to    *)
(* robot_mapping.json and puts it in memory; __init__ loads the file again *)
(* at the next start of the process.                                       *)
(*                                                                         *)
(* The endpoint runs in FastAPI's thread pool, so requests overlap.        *)
(* _calibration_lock guards only the single reads and writes of            *)
(* _calibration_session and _mapping_data: a request works on the session  *)
(* object it read, which another may fill, end or replace meanwhile. Every *)
(* statement that touches shared state is an action here.                  *)
(*                                                                         *)
(* A pose is the number of the target the tip stands on; only the careful  *)
(* operator's tip is followed, nothing tells the poses of the others       *)
(* apart. A start that is refused (no frame, no checkerboard, no pose)     *)
(* changes nothing and is left out. solvePnP and the plane geometry are    *)
(* the choice to succeed or to raise.                                      *)
(***************************************************************************)
EXTENDS Integers, Sequences

CONSTANTS
  Requests,     \* requests that may be under way at the same time
  TotalSteps,   \* TOTAL_CALIBRATION_STEPS: the four fixed points of the board
  Cameras,      \* intrinsics: contents of an intrinsics file
  NoCamera,     \* no readable intrinsics
  Profile,      \* intrinsics_path and resolution of each, all a mapping records of it
  MaxSessions,  \* bound: sessions started
  MaxRestarts   \* bound: crashes followed by a restart

ASSUME CalibrationAssumption ==
  /\ TotalSteps \in Nat \ {0}
  /\ MaxSessions \in Nat
  /\ MaxRestarts \in Nat
  /\ NoCamera \notin Cameras
  /\ Profile = [c \in Cameras |-> Profile[c]]

VARIABLES
  \* attributes of OrchestratorService
  session,     \* _calibration_session: its number, or 0 for None
  captured,    \* captured[s]: captured_robot_points of the s-th session started
  mapping,     \* _mapping_data, NoMapping for None
  intrinsics,  \* what the camera adapter loaded when the process started
  \* the disk
  file,        \* robot_mapping.json
  restarts,
  \* the requests
  pc, held,    \* where each is, and the session object it works on
  pose,        \* the pose it read
  solution,    \* the mapping it solved
  \* the operator
  arm, told,   \* the target the tip stands on, and the one the last answer names
  solo         \* TRUE: one careful operator, who waits for every answer

shared  == <<session, captured, mapping, intrinsics>>
disk    == <<file, restarts>>
locals  == <<pc, held, pose, solution>>
world   == <<arm, told, solo>>
vars    == <<shared, disk, locals, world>>

None      == 0
Sessions  == 1..Len(captured)
Targets   == 1..TotalSteps
NoMapping == [points |-> <<>>, camera |-> NoCamera]
Absent    == [points |-> <<>>, camera |-> "absent"]
Torn      == [points |-> <<>>, camera |-> "torn"]   \* empty, cut short, or garbage at its end
Mappings  == [points : [Targets -> Targets], camera : Cameras]
Steps     == {"idle", "pose", "append", "count", "target", "solve", "open", "flush",
              "publish", "fail"}

\* _load_mapping_file: what the process makes of a file when it starts with a
\* camera. Only the path and the resolution are compared, and only if there are any:
\* intrinsics generated anew at the same path are not told from the old ones.
Load_AnyCamera(content, camera) ==
  IF content \in {Absent, Torn} THEN NoMapping ELSE content

Load(content, camera) ==
  IF content \in {Absent, Torn} \/ (camera # NoCamera /\ Profile[content.camera] # Profile[camera])
  THEN NoMapping
  ELSE content

Init ==
  /\ intrinsics \in Cameras \cup {NoCamera}
  /\ session = None /\ captured = <<>>
  /\ file = Absent /\ restarts = 0
  /\ mapping = Load(file, intrinsics)
  /\ pc = [r \in Requests |-> "idle"] /\ held = [r \in Requests |-> None]
  /\ pose = [r \in Requests |-> None]
  /\ solution = [r \in Requests |-> NoMapping]
  /\ arm = 1 /\ told = None
  /\ solo \in BOOLEAN

Go(r, from, to) == pc[r] = from /\ pc' = [pc EXCEPT ![r] = to]
Quiet           == \A r \in Requests : pc[r] = "idle"
Points(s)       == Len(captured[s])

\* A request ends. Its answer names the target to go to next, if any.
Answer(r, from, target) ==
  /\ pc[r] = from
  /\ pc'       = [pc EXCEPT ![r] = "idle"]
  /\ held'     = [held EXCEPT ![r] = None]
  /\ pose'     = [pose EXCEPT ![r] = None]
  /\ solution' = [solution EXCEPT ![r] = NoMapping]
  /\ told' = IF solo THEN target ELSE None
  /\ UNCHANGED <<arm, solo>>

-----------------------------------------------------------------------------
(* The requests.                                                           *)

\* start: the session is built, then installed under the lock.
StartSession(r) ==
  /\ solo => Quiet
  /\ Len(captured) < MaxSessions
  /\ captured' = Append(captured, <<>>)
  /\ session' = Len(captured')
  /\ Answer(r, "idle", 1)
  /\ UNCHANGED <<mapping, intrinsics, disk>>

\* capture, first section under the lock. Without a session it is refused.
ReadSession(r) ==
  /\ solo => Quiet /\ arm = told
  /\ session # None
  /\ Go(r, "idle", "pose")
  /\ held' = [held EXCEPT ![r] = session]
  /\ UNCHANGED <<shared, disk, pose, solution, world>>

\* The robot may not answer, or still report the origin.
ReadPose(r) ==
  \/ /\ Go(r, "pose", "append")
     /\ pose' = [pose EXCEPT ![r] = arm]
     /\ UNCHANGED <<shared, disk, held, solution, world>>
  \/ /\ Answer(r, "pose", told)
     /\ UNCHANGED <<shared, disk>>

AppendPoint(r) ==
  /\ Go(r, "append", "count")
  /\ captured' = [captured EXCEPT ![held[r]] = Append(@, pose[r])]
  /\ UNCHANGED <<session, mapping, intrinsics, disk, held, pose, solution, world>>

\* Wrong: only the request that finds exactly four points solves.
CountPoints_Exact(r) ==
  /\ Go(r, "count", IF Points(held[r]) # TotalSteps THEN "target" ELSE "solve")
  /\ UNCHANGED <<shared, disk, held, pose, solution, world>>

\* current_step is read again after the append.
CountPoints(r) ==
  /\ Go(r, "count", IF Points(held[r]) < TotalSteps THEN "target" ELSE "solve")
  /\ UNCHANGED <<shared, disk, held, pose, solution, world>>

\* Wrong: the answer repeats the target just captured.
NameTarget_Repeats(r) ==
  /\ pc[r] = "target"
  /\ Answer(r, "target", Points(held[r]))
  /\ UNCHANGED <<shared, disk>>

\* ... and again to index the targets: an IndexError (500) if the session has been
\* filled since.
NameTarget(r) ==
  /\ pc[r] = "target"
  /\ Answer(r, "target", IF Points(held[r]) < TotalSteps THEN Points(held[r]) + 1 ELSE told)
  /\ UNCHANGED <<shared, disk>>

\* Wrong: solves with whatever points there are.
Solve_Uncounted(r) ==
  /\ \/ /\ Go(r, "solve", "open")
        /\ intrinsics # NoCamera
        /\ solution' = [solution EXCEPT ![r] = [points |-> captured[held[r]], camera |-> intrinsics]]
     \/ Go(r, "solve", "fail") /\ UNCHANGED solution
  /\ UNCHANGED <<shared, disk, held, pose, world>>

\* No intrinsics, a number of points other than four, or a degenerate set raises.
Solve(r) ==
  /\ \/ /\ Go(r, "solve", "open")
        /\ intrinsics # NoCamera
        /\ Points(held[r]) = TotalSteps
        /\ solution' = [solution EXCEPT ![r] = [points |-> captured[held[r]], camera |-> intrinsics]]
     \/ Go(r, "solve", "fail") /\ UNCHANGED solution
  /\ UNCHANGED <<shared, disk, held, pose, world>>

\* Wrong: the text is on disk before anything can fail.
OpenFile_WritesFirst(r) ==
  /\ \/ Go(r, "open", "flush") /\ file' = solution[r]
     \/ Go(r, "open", "fail") /\ file' = solution[r]
  /\ UNCHANGED <<shared, restarts, held, pose, solution, world>>

\* write_text truncates the file when it opens it, and may raise on either step.
OpenFile(r) ==
  /\ \/ Go(r, "open", "flush") /\ file' = Torn
     \/ Go(r, "open", "fail") /\ UNCHANGED file
  /\ UNCHANGED <<shared, restarts, held, pose, solution, world>>

\* Over the longer text of another request the file keeps that one's end.
FlushFile(r) ==
  /\ \/ Go(r, "flush", "publish") /\ file' = solution[r]
     \/ Go(r, "flush", "publish") /\ file # Torn /\ file' = Torn
     \/ Go(r, "flush", "fail") /\ file' = Torn
  /\ UNCHANGED <<shared, restarts, held, pose, solution, world>>

\* Second section under the lock: it ends the current session, whichever that is.
Publish(r) ==
  /\ Answer(r, "publish", None)
  /\ mapping' = solution[r] /\ session' = None
  /\ UNCHANGED <<captured, intrinsics, disk>>

\* The failure path, under the lock: again whichever session is current.
Abandon(r) ==
  /\ Answer(r, "fail", None)
  /\ session' = None
  /\ UNCHANGED <<captured, mapping, intrinsics, disk>>

\* The operator moves the tip to the target that the last answer names.
MoveTip ==
  /\ solo /\ Quiet
  /\ told # None /\ arm # told
  /\ arm' = told
  /\ UNCHANGED <<shared, disk, locals, told, solo>>

\* The process dies and starts again, perhaps with other intrinsics, at the same path
\* or at another. A text that is being written may be cut anywhere; only the file
\* survives.
Restart ==
  /\ restarts < MaxRestarts
  /\ restarts' = restarts + 1
  /\ intrinsics' \in Cameras \cup {NoCamera}
  /\ file' \in {file} \cup (IF \E r \in Requests : pc[r] = "flush" THEN {Torn} ELSE {})
  /\ mapping' = Load(file', intrinsics')
  /\ session' = None
  /\ pc' = [r \in Requests |-> "idle"] /\ held' = [r \in Requests |-> None]
  /\ pose' = [r \in Requests |-> None]
  /\ solution' = [r \in Requests |-> NoMapping]
  /\ told' = None
  /\ UNCHANGED <<captured, arm, solo>>

Request(r) ==
  \/ StartSession(r) \/ ReadSession(r) \/ ReadPose(r) \/ AppendPoint(r)
  \/ CountPoints(r) \/ NameTarget(r) \/ Solve(r) \/ OpenFile(r) \/ FlushFile(r)
  \/ Publish(r) \/ Abandon(r)

Next == (\E r \in Requests : Request(r)) \/ MoveTip \/ Restart

Spec == Init /\ [][Next]_vars

-----------------------------------------------------------------------------
(* Properties.                                                             *)

TypeOK ==
  /\ captured \in Seq(Seq(Targets)) /\ Len(captured) <= MaxSessions
  /\ session \in Sessions \cup {None}
  /\ intrinsics \in Cameras \cup {NoCamera}
  /\ mapping \in Mappings \cup {NoMapping}
  /\ file \in Mappings \cup {Absent, Torn}
  /\ restarts \in 0..MaxRestarts
  /\ pc \in [Requests -> Steps]
  /\ held \in [Requests -> Sessions \cup {None}]
  /\ \A r \in Requests : pc[r] # "idle" => held[r] \in Sessions
  /\ pose \in [Requests -> Targets \cup {None}]
  /\ \A r \in Requests : pc[r] = "append" => pose[r] \in Targets
  /\ solution \in [Requests -> Mappings \cup {NoMapping}]
  /\ \A r \in Requests : pc[r] \in {"open", "flush", "publish"} => solution[r] \in Mappings
  /\ arm \in Targets /\ told \in Targets \cup {None}
  /\ solo \in BOOLEAN

\* _calibration_session is never left full with nobody to end it: however captures
\* overlap, some request that counted four points or more still solves or abandons
\* it, so the flow cannot hang at 4/4.
Ending(r, s)        == held[r] = s /\ pc[r] \in {"count", "solve", "open", "flush", "publish", "fail"}
FullSessionIsEnding == session # None /\ Points(session) >= TotalSteps =>
                         \E r \in Requests : Ending(r, session)

\* A mapping in memory was solved with intrinsics of the path and the resolution the
\* process runs with, also after restarts with other ones and with none. That they
\* are the same intrinsics is not said: the code does not compare the contents.
MappingMatchesProfile ==
  mapping # NoMapping /\ intrinsics # NoCamera => Profile[mapping.camera] = Profile[intrinsics]

\* One careful operator, who waits for answers and goes where they say, gets a
\* mapping whose k-th point is the k-th target, whatever poses could not be read,
\* sessions were started anew, solves failed or restarts came in between.
PointsMatchTargets == solo /\ mapping # NoMapping => \A k \in Targets : mapping.points[k] = k

\* The mapping on disk is the one in memory, or none: with one operator a restart
\* while no request is under way may lose the mapping (a write that failed has
\* truncated the file) but never brings another one back.
RestartKeepsMapping == solo /\ Quiet => Load(file, intrinsics) \in {mapping, NoMapping}
=============================================================================
