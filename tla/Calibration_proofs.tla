------------------------- MODULE Calibration_proofs -------------------------
(***************************************************************************)
(* What holds of calibration for any number of overlapping requests, any   *)
(* number of fixed points, sessions and restarts: a full session is always *)
(* being ended, a mapping was solved with intrinsics of the path and the   *)
(* resolution in use, and one careful operator gets every point at its     *)
(* target, and the same mapping or none after a restart.                   *)
(***************************************************************************)
EXTENDS Calibration, TLAPS

LEMMA LoadGivesMapping ==
  ASSUME NEW content \in Mappings \cup {Absent, Torn}, NEW camera
  PROVE  /\ Load(content, camera) \in Mappings \cup {NoMapping}
         /\ Load(content, camera) # NoMapping => Load(content, camera) = content
         /\ Load(content, camera) # NoMapping /\ camera # NoCamera =>
              Profile[Load(content, camera).camera] = Profile[camera]
BY DEF Load

\* A request that has its lock, file or pose has its session.
LEMMA TypeStep ==
  ASSUME TypeOK, [Next]_vars
  PROVE  TypeOK'
<1> USE CalibrationAssumption DEF TypeOK, Steps, None, Sessions, Targets
<1>0. mapping \in Mappings \cup {NoMapping} /\ file \in Mappings \cup {Absent, Torn}
  OBVIOUS
<1>1. ASSUME NEW r \in Requests, StartSession(r)
      PROVE  TypeOK'
  BY <1>1 DEF StartSession, Answer, disk
<1>2. ASSUME NEW r \in Requests, ReadSession(r)
      PROVE  TypeOK'
  BY <1>2 DEF ReadSession, Go, shared, disk, world
<1>3. ASSUME NEW r \in Requests, ReadPose(r)
      PROVE  TypeOK'
  BY <1>3 DEF ReadPose, Answer, Go, shared, disk, world
<1>4. ASSUME NEW r \in Requests, AppendPoint(r)
      PROVE  TypeOK'
  <2>1. held[r] \in 1..Len(captured) /\ captured[held[r]] \in Seq(Targets) /\ pose[r] \in Targets
    BY <1>4 DEF AppendPoint, Go
  <2>2. Append(captured[held[r]], pose[r]) \in Seq(Targets)
    BY <2>1
  <2>3. captured' \in Seq(Seq(Targets)) /\ Len(captured') = Len(captured)
    <3>1. captured \in Seq(Seq(Targets))
      OBVIOUS
    <3>2. captured' = [captured EXCEPT ![held[r]] = Append(captured[held[r]], pose[r])]
      BY <1>4 DEF AppendPoint
    <3> HIDE DEF Targets, TypeOK
    <3> QED
      BY <2>1, <2>2, <3>1, <3>2
  <2> QED
    BY <1>4, <2>3 DEF AppendPoint, Go, disk, world
<1>5. ASSUME NEW r \in Requests, CountPoints(r)
      PROVE  TypeOK'
  BY <1>5 DEF CountPoints, Go, shared, disk, world
<1>6. ASSUME NEW r \in Requests, NameTarget(r)
      PROVE  TypeOK'
  BY <1>6 DEF NameTarget, Answer, Points, shared, disk
<1>7. ASSUME NEW r \in Requests, Solve(r)
      PROVE  TypeOK'
  <2>1. CASE Go(r, "solve", "fail") /\ UNCHANGED solution
    BY <1>7, <2>1 DEF Solve, Go, shared, disk, world
  <2>2. CASE /\ Go(r, "solve", "open")
             /\ intrinsics # NoCamera
             /\ Points(held[r]) = TotalSteps
             /\ solution' = [solution EXCEPT ![r] =
                   [points |-> captured[held[r]], camera |-> intrinsics]]
    <3>0. captured[held[r]] \in Seq(Targets) /\ Len(captured[held[r]]) = TotalSteps
      BY <2>2 DEF Go, Points
    <3>1. captured[held[r]] \in [Targets -> Targets]
      <4> HIDE DEF TypeOK
      <4> QED
        BY <3>0
    <3>2. [points |-> captured[held[r]], camera |-> intrinsics] \in Mappings
      BY <2>2, <3>1 DEF Mappings
    <3> QED
      BY <1>7, <2>2, <3>2 DEF Solve, Go, shared, disk, world
  <2> QED
    BY <1>7, <2>1, <2>2 DEF Solve
<1>8. ASSUME NEW r \in Requests, OpenFile(r)
      PROVE  TypeOK'
  BY <1>8 DEF OpenFile, Go, shared, world
<1>9. ASSUME NEW r \in Requests, FlushFile(r)
      PROVE  TypeOK'
  BY <1>9 DEF FlushFile, Go, shared, world
<1>10. ASSUME NEW r \in Requests, Publish(r)
       PROVE  TypeOK'
  BY <1>10 DEF Publish, Answer, disk
<1>11. ASSUME NEW r \in Requests, Abandon(r)
       PROVE  TypeOK'
  BY <1>11 DEF Abandon, Answer, disk
<1>12. CASE MoveTip
  BY <1>12 DEF MoveTip, shared, disk, locals
<1>13. CASE Restart
  <2>1. file' \in Mappings \cup {Absent, Torn}
    BY <1>13 DEF Restart
  <2>2. mapping' \in Mappings \cup {NoMapping}
    BY <1>13, <2>1, LoadGivesMapping DEF Restart
  <2> QED
    BY <1>13, <2>1, <2>2 DEF Restart
<1>14. CASE UNCHANGED vars
  BY <1>14 DEF vars, shared, disk, locals, world
<1> QED
  BY <1>1, <1>2, <1>3, <1>4, <1>5, <1>6, <1>7, <1>8, <1>9, <1>10, <1>11, <1>12, <1>13, <1>14
     DEF Next, Request

LEMMA TypeInit == Init => TypeOK
<1> SUFFICES ASSUME Init
             PROVE  TypeOK
  OBVIOUS
<1>1. file = Absent /\ mapping \in Mappings \cup {NoMapping}
  BY LoadGivesMapping DEF Init
<1>2. captured \in Seq(Seq(Targets)) /\ Len(captured) = 0
  BY DEF Init
<1> QED
  BY <1>1, <1>2, CalibrationAssumption DEF Init, TypeOK, Steps, None, Sessions, Targets

\* Every variable of the calibration keeps its type; a solved mapping has one point
\* per target, however many points overlapping captures put into its session.
THEOREM TypeCorrect == Spec => []TypeOK
BY TypeInit, TypeStep, PTL DEF Spec

-----------------------------------------------------------------------------
(* Full sessions and cameras.                                              *)

\* Whoever adds or counts a point of a full session goes on to end it.
LEMMA EndingStep ==
  ASSUME TypeOK, FullSessionIsEnding, [Next]_vars
  PROVE  FullSessionIsEnding'
<1> USE CalibrationAssumption DEF FullSessionIsEnding, Ending, Points, None
<1>1. /\ pc \in [Requests -> Steps] /\ held \in [Requests -> 0..Len(captured)]
      /\ captured \in Seq(Seq(Targets)) /\ session \in 0..Len(captured)
      /\ \A r \in Requests : pc[r] # "idle" => held[r] \in 1..Len(captured)
  BY DEF TypeOK, Sessions
<1>2. ASSUME NEW r \in Requests, StartSession(r)
      PROVE  FullSessionIsEnding'
  BY <1>1, <1>2 DEF StartSession, Answer
<1>3. ASSUME NEW r \in Requests, AppendPoint(r)
      PROVE  FullSessionIsEnding'
  <2>1. held[r] \in 1..Len(captured) /\ captured[held[r]] \in Seq(Targets)
    BY <1>1, <1>3 DEF AppendPoint, Go
  <2>2. CASE held[r] = session
    BY <1>1, <1>3, <2>2 DEF AppendPoint, Go
  <2>3. CASE held[r] # session
    BY <1>1, <1>3, <2>1, <2>3 DEF AppendPoint, Go
  <2> QED
    BY <2>2, <2>3
<1>4. ASSUME NEW r \in Requests, ReadSession(r) \/ ReadPose(r) \/ NameTarget(r)
      PROVE  FullSessionIsEnding'
  BY <1>1, <1>4 DEF ReadSession, ReadPose, NameTarget, Answer, Go, shared
<1>5. ASSUME NEW r \in Requests, CountPoints(r)
      PROVE  FullSessionIsEnding'
  <2>0. pc[r] = "count" /\ held[r] \in 1..Len(captured)
    BY <1>1, <1>5 DEF CountPoints, Go
  <2>1. captured[held[r]] \in Seq(Targets)
    BY <1>1, <2>0
  <2> QED
    BY <1>1, <1>5, <2>1 DEF CountPoints, Go, shared
<1>6. ASSUME NEW r \in Requests, Solve(r) \/ OpenFile(r) \/ FlushFile(r)
      PROVE  FullSessionIsEnding'
  BY <1>1, <1>6 DEF Solve, OpenFile, FlushFile, Go, shared
<1>7. ASSUME NEW r \in Requests, Publish(r) \/ Abandon(r)
      PROVE  FullSessionIsEnding'
  BY <1>7 DEF Publish, Abandon
<1>8. CASE MoveTip \/ UNCHANGED vars
  BY <1>8 DEF MoveTip, vars, shared, locals
<1>9. CASE Restart
  BY <1>9 DEF Restart
<1> QED
  BY <1>2, <1>3, <1>4, <1>5, <1>6, <1>7, <1>8, <1>9 DEF Next, Request

\* However many captures overlap, a session that holds all its points is current
\* only while a request is about to end it.
THEOREM FullSessionAlwaysEnds == Spec => []FullSessionIsEnding
<1>1. Init => FullSessionIsEnding
  BY DEF Init, FullSessionIsEnding
<1> QED
  BY <1>1, EndingStep, TypeCorrect, PTL DEF Spec

\* A mapping about to be published was solved with the intrinsics in use: a request
\* does not outlive its process.
SolvedForCamera == \A r \in Requests :
  pc[r] \in {"open", "flush", "publish"} => solution[r].camera = intrinsics

CameraIInv == SolvedForCamera /\ MappingMatchesProfile

LEMMA CameraStep ==
  ASSUME TypeOK, CameraIInv, [Next]_vars
  PROVE  CameraIInv'
<1> USE DEF CameraIInv, SolvedForCamera, MappingMatchesProfile
<1>1. /\ pc \in [Requests -> Steps]
      /\ solution \in [Requests -> Mappings \cup {NoMapping}]
      /\ mapping \in Mappings \cup {NoMapping}
  BY DEF TypeOK
<1>2. ASSUME NEW r \in Requests, StartSession(r) \/ ReadPose(r) \/ NameTarget(r) \/ Abandon(r)
      PROVE  CameraIInv'
  BY <1>1, <1>2 DEF StartSession, ReadPose, NameTarget, Abandon, Answer, Go, shared
<1>3. ASSUME NEW r \in Requests,
             ReadSession(r) \/ AppendPoint(r) \/ CountPoints(r) \/ OpenFile(r) \/ FlushFile(r)
      PROVE  CameraIInv'
  BY <1>1, <1>3 DEF ReadSession, AppendPoint, CountPoints, OpenFile, FlushFile, Go, shared
<1>4. ASSUME NEW r \in Requests, Solve(r)
      PROVE  CameraIInv'
  BY <1>1, <1>4 DEF Solve, Go, shared
<1>5. ASSUME NEW r \in Requests, Publish(r)
      PROVE  CameraIInv'
  BY <1>1, <1>5 DEF Publish, Answer
<1>6. CASE MoveTip \/ UNCHANGED vars
  BY <1>6 DEF MoveTip, vars, shared, locals
<1>7. CASE Restart
  <2>1. file' \in Mappings \cup {Absent, Torn}
    BY <1>7 DEF Restart, TypeOK
  <2> QED
    BY <1>7, <2>1, LoadGivesMapping DEF Restart
<1> QED
  BY <1>2, <1>3, <1>4, <1>5, <1>6, <1>7 DEF Next, Request

\* Whichever intrinsics the process is restarted with, a mapping
\* in memory was solved with intrinsics of the path and the resolution that are loaded.
THEOREM MappingAlwaysMatches == Spec => []MappingMatchesProfile
<1>1. Init => CameraIInv
  BY LoadGivesMapping DEF Init, CameraIInv, SolvedForCamera, MappingMatchesProfile
<1>2. CameraIInv => MappingMatchesProfile
  BY DEF CameraIInv
<1> QED
  BY <1>1, <1>2, CameraStep, TypeCorrect, PTL DEF Spec

-----------------------------------------------------------------------------
(* One careful operator.                                                   *)

Ordered(points) == \A k \in Targets : points[k] = k
Busy(r)         == pc[r] # "idle"

\* At most one request is under way, and it works on the current session.
OneAtATime == /\ \A r, q \in Requests : Busy(r) /\ Busy(q) => r = q
              /\ \A r \in Requests : Busy(r) => held[r] = session

\* The points of every session so far are those of its first targets.
SessionsOrdered == \A s \in Sessions :
  Points(s) <= TotalSteps /\ \A k \in 1..Points(s) : captured[s][k] = k

\* Until the next point is in, the last answer named its target.
Counting == \E r \in Requests : pc[r] \notin {"idle", "pose", "append"}
Guided   == session # None /\ ~Counting =>
              told = Points(session) + 1 /\ Points(session) < TotalSteps

\* A request was posted with the tip on that target, and its point is the tip's.
Standing == \A r \in Requests :
  /\ pc[r] \in {"pose", "append"} => arm = told
  /\ pc[r] = "append" => pose[r] = told
  /\ pc[r] = "target" => Points(held[r]) < TotalSteps

MappingsOrdered ==
  /\ mapping # NoMapping => Ordered(mapping.points)
  /\ file \notin {Absent, Torn} => Ordered(file.points)
  /\ \A r \in Requests : pc[r] \in {"open", "flush", "publish"} => Ordered(solution[r].points)


Careful == OneAtATime /\ SessionsOrdered /\ Guided /\ Standing /\ MappingsOrdered

LEMMA CarefulRequest ==
  ASSUME solo, TypeOK, Careful, NEW r \in Requests, Request(r)
  PROVE  Careful'
<1> USE CalibrationAssumption DEF None, Busy, Counting, Points
<1>1. /\ pc \in [Requests -> Steps] /\ held \in [Requests -> 0..Len(captured)]
      /\ captured \in Seq(Seq(Targets)) /\ session \in 0..Len(captured)
      /\ \A q \in Requests : pc[q] # "idle" => held[q] \in 1..Len(captured)
      /\ pose \in [Requests -> Targets \cup {None}]
      /\ solution \in [Requests -> Mappings \cup {NoMapping}]
      /\ \A q \in Requests : pc[q] \in {"open", "flush", "publish"} => solution[q] \in Mappings
      /\ told \in Targets \cup {None}
  BY DEF TypeOK, Sessions
<1>2. \A q \in Requests : pc[q] # "idle" => held[q] = session
  BY DEF Careful, OneAtATime
<1>3. \A q, s \in Requests : pc[q] # "idle" /\ pc[s] # "idle" => q = s
  BY DEF Careful, OneAtATime
<1>4. CASE StartSession(r)
  <2>1. (\A q \in Requests : pc[q] = "idle") /\ (\A q \in Requests : pc'[q] = "idle")
    BY <1>1, <1>4 DEF StartSession, Answer, Quiet
  <2>2. session' = Len(captured) + 1 /\ captured' = Append(captured, <<>>) /\ told' = 1
    BY <1>1, <1>4 DEF StartSession, Answer
  <2>3. SessionsOrdered'
    BY <1>1, <2>2 DEF Careful, SessionsOrdered, Sessions
  <2>4. Guided'
    BY <1>1, <2>2 DEF Guided
  <2>5. MappingsOrdered'
    BY <1>4, <2>1 DEF StartSession, Careful, MappingsOrdered, Ordered, disk
  <2> QED
    BY <2>1, <2>3, <2>4, <2>5 DEF Careful, OneAtATime, Standing
<1>5. CASE ReadSession(r)
  BY <1>1, <1>5
     DEF ReadSession, Go, Quiet, shared, disk, world,
         Careful, OneAtATime, SessionsOrdered, Sessions, Guided, Standing, MappingsOrdered, Ordered
<1>6. CASE ReadPose(r)
  <2>1. pc[r] = "pose" /\ \A q \in Requests : q # r => pc[q] = "idle"
    BY <1>3, <1>6 DEF ReadPose, Answer, Go
  <2>2. OneAtATime'
    BY <1>1, <1>6, <2>1 DEF ReadPose, Answer, Go, shared, disk, world, Careful, OneAtATime
  <2>3. SessionsOrdered'
    BY <1>1, <1>6, <2>1 DEF ReadPose, Answer, Go, shared, disk, world, Careful,
       SessionsOrdered, Sessions
  <2>4. Guided'
    BY <1>1, <1>6, <2>1 DEF ReadPose, Answer, Go, shared, disk, world, Careful, Guided
  <2>5. Standing'
    BY <1>1, <1>6, <2>1 DEF ReadPose, Answer, Go, shared, disk, world, Careful, Standing
  <2>6. MappingsOrdered'
    BY <1>1, <1>6, <2>1 DEF ReadPose, Answer, Go, shared, disk, world, Careful,
       MappingsOrdered, Ordered
  <2> QED
    BY <2>2, <2>3, <2>4, <2>5, <2>6 DEF Careful
<1>7. CASE AppendPoint(r)
  <2>1. pc[r] = "append" /\ held[r] = session /\ session \in 1..Len(captured)
    BY <1>1, <1>2, <1>7 DEF AppendPoint, Go
  <2>2. \A q \in Requests : pc[q] \in {"idle", "pose", "append"}
    BY <1>3, <2>1
  <2>3. pose[r] = Points(session) + 1 /\ Points(session) < TotalSteps
    BY <2>1, <2>2 DEF Careful, Guided, Standing
  <2>4. captured[session] \in Seq(Targets)
    BY <1>1, <2>1
  <2>5. captured' = [captured EXCEPT ![session] = Append(captured[session], pose[r])]
    BY <1>7, <2>1 DEF AppendPoint
  <2>6. SessionsOrdered'
    BY <1>1, <2>1, <2>3, <2>4, <2>5 DEF Careful, SessionsOrdered, Sessions
  <2>7. /\ pc' = [pc EXCEPT ![r] = "count"]
        /\ UNCHANGED <<session, mapping, file, held, pose, solution, arm, told>>
    BY <1>7 DEF AppendPoint, Go, disk, world
  <2>8. OneAtATime' /\ Guided'
    BY <1>1, <2>1, <2>7 DEF Careful, OneAtATime, Guided
  <2>9. Standing' /\ MappingsOrdered'
    BY <1>1, <1>3, <2>1, <2>7 DEF Careful, Standing, MappingsOrdered, Ordered
  <2> QED
    BY <2>6, <2>8, <2>9 DEF Careful
<1>8. CASE CountPoints(r) \/ OpenFile(r) \/ FlushFile(r)
  <2>1. /\ pc[r] \in {"count", "open", "flush"}
        /\ \A q \in Requests : q # r => pc[q] = "idle"
    BY <1>3, <1>8 DEF CountPoints, OpenFile, FlushFile, Go
  <2>2. OneAtATime'
    BY <1>1, <1>8, <2>1 DEF CountPoints, OpenFile, FlushFile, Go, shared, disk, world, Careful,
       OneAtATime
  <2>3. SessionsOrdered'
    BY <1>1, <1>8, <2>1 DEF CountPoints, OpenFile, FlushFile, Go, shared, disk, world, Careful,
       SessionsOrdered, Sessions
  <2>4. Guided'
    BY <1>1, <1>8, <2>1 DEF CountPoints, OpenFile, FlushFile, Go, shared, disk, world, Careful,
       Guided
  <2>5. Standing'
    BY <1>1, <1>8, <2>1 DEF CountPoints, OpenFile, FlushFile, Go, shared, disk, world, Careful,
       Standing
  <2>6. MappingsOrdered'
    <3> USE <1>1, <2>1 DEF Go, shared, disk, Careful, MappingsOrdered, Ordered
    <3>1. CASE CountPoints(r)
      BY <3>1 DEF CountPoints
    <3>2. CASE OpenFile(r)
      <4>1. /\ pc[r] = "open"
            /\ \A q \in Requests : pc'[q] \in {"open", "flush", "publish"} => q = r
            /\ mapping' = mapping /\ solution' = solution /\ file' \in {file, Torn}
        BY <3>2 DEF OpenFile
      <4> QED
        BY <4>1
    <3>3. CASE FlushFile(r)
      <4>1. /\ pc[r] = "flush"
            /\ \A q \in Requests : pc'[q] \in {"open", "flush", "publish"} => q = r
            /\ mapping' = mapping /\ solution' = solution /\ file' \in {solution[r], Torn}
        BY <3>3 DEF FlushFile
      <4> QED
        BY <4>1
    <3> QED
      BY <1>8, <3>1, <3>2, <3>3
  <2> QED
    BY <2>2, <2>3, <2>4, <2>5, <2>6 DEF Careful
<1>9. CASE NameTarget(r)
  <2>1. pc[r] = "target" /\ held[r] = session /\ Points(held[r]) < TotalSteps
    BY <1>2, <1>9 DEF NameTarget, Careful, Standing
  <2> QED
    BY <1>1, <1>3, <1>9, <2>1
       DEF NameTarget, Answer, disk, shared,
           Careful, OneAtATime, SessionsOrdered, Sessions, Guided, Standing, MappingsOrdered, Ordered
<1>10. CASE Solve(r)
  <2>0. pc[r] = "solve" /\ held[r] \in Sessions
    BY <1>1, <1>10 DEF Solve, Go, Sessions
  <2>1. /\ \A q \in Requests : q # r => pc[q] = "idle"
        /\ pc' \in {[pc EXCEPT ![r] = "open"], [pc EXCEPT ![r] = "fail"]}
        /\ UNCHANGED <<session, captured, mapping, file, held, pose, arm, told>>
    BY <1>3, <1>10, <2>0 DEF Solve, Go, shared, disk, world
  <2>2. pc'[r] = "open" => Ordered(solution'[r].points)
    BY <1>1, <1>10, <2>0 DEF Solve, Go, Ordered, Careful, SessionsOrdered, Targets
  <2>3. OneAtATime' /\ SessionsOrdered'
    BY <1>1, <2>0, <2>1 DEF Careful, OneAtATime, SessionsOrdered, Sessions
  <2>4. Guided'
    BY <1>1, <2>0, <2>1 DEF Careful, Guided
  <2>5. Standing'
    BY <1>1, <2>0, <2>1 DEF Careful, Standing
  <2>6. MappingsOrdered'
    BY <1>1, <2>0, <2>1, <2>2 DEF Careful, MappingsOrdered, Ordered
  <2> QED
    BY <2>3, <2>4, <2>5, <2>6 DEF Careful
<1>11. CASE Publish(r) \/ Abandon(r)
  <2>1. /\ pc[r] \in {"publish", "fail"}
        /\ \A q \in Requests : q # r => pc[q] = "idle"
    BY <1>3, <1>11 DEF Publish, Abandon, Answer
  <2>2. OneAtATime' /\ \A q \in Requests : pc'[q] = "idle"
    <3>1. pc' = [pc EXCEPT ![r] = "idle"]
      BY <1>11 DEF Publish, Abandon, Answer
    <3> QED
      BY <1>1, <2>1, <3>1 DEF OneAtATime
  <2>3. SessionsOrdered'
    BY <1>1, <1>11, <2>1 DEF Publish, Abandon, Answer, disk, Careful, SessionsOrdered, Sessions
  <2>4. Guided'
    BY <1>1, <1>11, <2>1 DEF Publish, Abandon, Answer, disk, Careful, Guided
  <2>5. Standing'
    BY <1>1, <1>11, <2>1 DEF Publish, Abandon, Answer, disk, Careful, Standing
  <2>6. MappingsOrdered'
    <3> USE <1>1, <2>1, <2>2 DEF disk, Careful, MappingsOrdered, Ordered
    <3>1. CASE Publish(r)
      <4>1. pc[r] = "publish" /\ mapping' = solution[r] /\ file' = file
        BY <3>1 DEF Publish, Answer
      <4> QED
        BY <4>1
    <3>2. CASE Abandon(r)
      BY <3>2 DEF Abandon
    <3> QED
      BY <1>11, <3>1, <3>2
  <2> QED
    BY <2>2, <2>3, <2>4, <2>5, <2>6 DEF Careful
<1> QED
  BY <1>4, <1>5, <1>6, <1>7, <1>8, <1>9, <1>10, <1>11 DEF Request

LEMMA CarefulRestart ==
  ASSUME solo, TypeOK, Careful, Restart
  PROVE  Careful'
<1>1. \A r \in Requests : pc'[r] = "idle"
  BY DEF Restart
<1>2. file' \in Mappings \cup {Absent, Torn} /\ mapping' = Load(file', intrinsics')
  BY DEF Restart, TypeOK
<1>3. MappingsOrdered'
  <2>1. file' \notin {Absent, Torn} => Ordered(file'.points)
    BY DEF Restart, Careful, MappingsOrdered, Ordered
  <2>2. mapping' # NoMapping => Ordered(mapping'.points)
    BY <1>2, <2>1, LoadGivesMapping DEF Load
  <2> QED
    BY <1>1, <2>1, <2>2 DEF MappingsOrdered, Ordered
<1>4. SessionsOrdered'
  BY DEF Restart, Careful, SessionsOrdered, Sessions, Points
<1>5. Guided' /\ Standing' /\ OneAtATime'
  BY <1>1 DEF Restart, Guided, Standing, OneAtATime, Busy
<1> QED
  BY <1>3, <1>4, <1>5 DEF Careful

LEMMA CarefulStep ==
  ASSUME TypeOK, solo => Careful, [Next]_vars
  PROVE  (solo => Careful)'
<1>1. solo' = solo
  BY DEF Next, Request, StartSession, ReadSession, ReadPose, AppendPoint, CountPoints,
     NameTarget,
         Solve, OpenFile, FlushFile, Publish, Abandon, MoveTip, Restart, Answer, world, vars
<1>2. ASSUME NEW r \in Requests, Request(r)
      PROVE  (solo => Careful)'
  BY <1>1, <1>2, CarefulRequest
<1>3. CASE Restart
  BY <1>1, <1>3, CarefulRestart
<1>4. CASE MoveTip
  BY <1>1, <1>4
     DEF MoveTip, Quiet, shared, disk, locals, Careful, OneAtATime, Busy, SessionsOrdered, Sessions,
         Points, Guided, Counting, Standing, MappingsOrdered, Ordered
<1>5. CASE UNCHANGED vars
  BY <1>1, <1>5
     DEF vars, shared, disk, locals, world, Careful, OneAtATime, Busy, SessionsOrdered, Sessions,
         Points, Guided, Counting, Standing, MappingsOrdered, Ordered
<1> QED
  BY <1>2, <1>3, <1>4, <1>5 DEF Next

LEMMA CarefulInit == Init => (solo => Careful)
BY DEF Init, Careful, OneAtATime, Busy, SessionsOrdered, Sessions, Guided, Standing,
       MappingsOrdered, Load

\* For any number of fixed points: the k-th point of the mapping an operator gets
\* who waits for every answer was taken with the tip on the k-th target.
THEOREM CarefulOperatorGetsTargets == Spec => []PointsMatchTargets
<1>1. (solo => Careful) => PointsMatchTargets
  BY DEF Careful, MappingsOrdered, Ordered, PointsMatchTargets
<1> QED
  BY <1>1, CarefulInit, CarefulStep, TypeCorrect, PTL DEF Spec

\* The file holds the mapping in memory or none; a request that has written its mapping
\* has still to put it in memory.
FileFollows ==
  /\ (\A r \in Requests : pc[r] # "publish") => Load(file, intrinsics) \in {mapping, NoMapping}
  /\ \A r \in Requests : pc[r] = "publish" => Load(file, intrinsics) \in {solution[r], NoMapping}

LEMMA LoadsItOrNothing ==
  /\ \A content, camera : Load(content, camera) \in {content, NoMapping}
  /\ \A camera : Load(Torn, camera) = NoMapping
BY DEF Load

LEMMA FollowsRequest ==
  ASSUME TypeOK, OneAtATime, FileFollows, NEW r \in Requests, Request(r)
  PROVE  FileFollows'
<1>1. pc \in [Requests -> Steps] /\ solution \in [Requests -> Mappings \cup {NoMapping}]
  BY DEF TypeOK
<1>2. \A q \in Requests \ {r} : pc[r] # "idle" => pc[q] = "idle"
  BY DEF OneAtATime, Busy
<1>3. CASE StartSession(r)
  <2>1. UNCHANGED <<mapping, intrinsics, file>> /\ pc[r] = "idle" /\ pc' = [pc EXCEPT ![r] = "idle"]
        /\ solution' = [solution EXCEPT ![r] = NoMapping]
    BY <1>3 DEF StartSession, Answer, disk
  <2> QED
    BY <1>1, <2>1 DEF FileFollows
<1>4. CASE ReadSession(r) \/ ReadPose(r) \/ AppendPoint(r) \/ CountPoints(r) \/ NameTarget(r) \/ Solve(r)
  <2>1. /\ UNCHANGED <<mapping, intrinsics, file>> /\ pc[r] # "publish" /\ pc'[r] # "publish"
        /\ \A q \in Requests \ {r} : pc'[q] = pc[q] /\ solution'[q] = solution[q]
    BY <1>1, <1>4 DEF ReadSession, ReadPose, AppendPoint, CountPoints, NameTarget, Solve,
                      Answer, Go, shared, disk
  <2> QED
    BY <2>1 DEF FileFollows
<1>5. CASE OpenFile(r)
  <2>1. /\ pc[r] = "open" /\ pc'[r] # "publish" /\ file' \in {file, Torn}
        /\ UNCHANGED <<mapping, intrinsics>> /\ \A q \in Requests \ {r} : pc'[q] = pc[q]
    BY <1>1, <1>5 DEF OpenFile, Go, shared
  <2>2. \A q \in Requests : pc[q] # "publish" /\ pc'[q] # "publish"
    BY <1>2, <2>1
  <2>3. Load(file', intrinsics') \in {mapping', NoMapping}
    BY <2>1, <2>2, LoadsItOrNothing DEF FileFollows
  <2> QED
    BY <2>2, <2>3 DEF FileFollows
<1>6. CASE FlushFile(r)
  <2>1. /\ pc[r] = "flush" /\ pc'[r] \in {"publish", "fail"} /\ solution' = solution
        /\ pc'[r] = "publish" => file' \in {solution[r], Torn}
        /\ pc'[r] = "fail" => file' = Torn
        /\ \A q \in Requests \ {r} : pc'[q] = pc[q]
    BY <1>1, <1>6 DEF FlushFile, Go
  <2>2. \A q \in Requests \ {r} : pc'[q] # "publish"
    BY <1>2, <2>1
  <2>3. CASE pc'[r] = "publish"
    BY <2>1, <2>2, <2>3, LoadsItOrNothing DEF FileFollows
  <2>4. CASE pc'[r] = "fail"
    BY <2>1, <2>2, <2>4, LoadsItOrNothing DEF FileFollows
  <2> QED
    BY <2>1, <2>3, <2>4
<1>7. CASE Publish(r)
  <2>1. /\ pc[r] = "publish" /\ pc'[r] = "idle" /\ mapping' = solution[r]
        /\ UNCHANGED <<intrinsics, file>> /\ \A q \in Requests \ {r} : pc'[q] = pc[q]
    BY <1>1, <1>7 DEF Publish, Answer, disk
  <2>2. \A q \in Requests : pc'[q] # "publish"
    BY <1>2, <2>1
  <2> QED
    BY <2>1, <2>2 DEF FileFollows
<1>8. CASE Abandon(r)
  <2>1. /\ pc[r] = "fail" /\ pc'[r] = "idle"
        /\ UNCHANGED <<mapping, intrinsics, file>> /\ \A q \in Requests \ {r} : pc'[q] = pc[q]
    BY <1>1, <1>8 DEF Abandon, Answer, disk
  <2>2. \A q \in Requests : pc[q] # "publish" /\ pc'[q] # "publish"
    BY <1>2, <2>1
  <2> QED
    BY <2>1, <2>2 DEF FileFollows
<1> QED
  BY <1>3, <1>4, <1>5, <1>6, <1>7, <1>8 DEF Request

LEMMA FollowsStep ==
  ASSUME TypeOK, solo => Careful /\ FileFollows, [Next]_vars
  PROVE  (solo => FileFollows)'
<1>1. solo' = solo
  BY DEF Next, Request, StartSession, ReadSession, ReadPose, AppendPoint, CountPoints,
     NameTarget,
         Solve, OpenFile, FlushFile, Publish, Abandon, MoveTip, Restart, Answer, world, vars
<1>2. ASSUME NEW r \in Requests, Request(r)
      PROVE  (solo => FileFollows)'
  BY <1>1, <1>2, FollowsRequest DEF Careful
<1>3. CASE Restart
  BY <1>3 DEF Restart, FileFollows
<1>4. CASE MoveTip \/ UNCHANGED vars
  BY <1>1, <1>4 DEF MoveTip, vars, shared, disk, locals, FileFollows
<1> QED
  BY <1>2, <1>3, <1>4 DEF Next

\* With one careful operator the mapping a restart between requests finds is the one
\* that was in memory, or none, for any number of fixed points, failing writes,
\* sessions, cameras and earlier restarts.
THEOREM RestartBringsNoOther == Spec => []RestartKeepsMapping
<1>1. Init => (solo => FileFollows)
  BY DEF Init, FileFollows
<1>2. (solo => FileFollows) => RestartKeepsMapping
  BY DEF FileFollows, RestartKeepsMapping, Quiet
<1> QED
  BY <1>1, <1>2, CarefulInit, CarefulStep, FollowsStep, TypeCorrect, PTL DEF Spec
==============================================================================
