------------------------ MODULE CameraCapture_proofs ------------------------
(***************************************************************************)
(* The shared capture for any number of users, health checks, starts and   *)
(* uses: at most one capture thread lives and the adapter knows it, a      *)
(* frame on offer is its own, the open streams are counted, and no start   *)
(* fails because of another. None of it needs fairness or a bound.         *)
(***************************************************************************)
EXTENDS CameraCapture, FiniteSetTheorems, TLAPS

Open == {u \in Users : streaming[u]}

\* All of TypeOK but the range of streams, which follows from the count.
Types ==
  /\ current \in Threads \cup {None} /\ joined \in Threads \cup {None}
  /\ frame \in Threads \cup {None}
  /\ running \in BOOLEAN /\ failed \in BOOLEAN /\ cache \in BOOLEAN
  /\ access \in {"never", "recent", "old"}
  /\ capture \in [Threads -> {"unborn", "opening", "refused", "opened", "loop", "read",
                              "release", "forget", "lower", "ending", "dead"}]
  /\ pc \in [Users -> {"idle", "ensure", "await", "touch", "fetch", "process", "paused"}]
  /\ streaming \in [Users -> BOOLEAN]
  /\ uses \in 0..MaxUses
  /\ ping \in [Pingers -> {"idle", "opening", "open"}]
  /\ closer \in {"idle", "join", "detach", "wipe", "reset", "done"}
  /\ calm \in BOOLEAN /\ shutdown \in BOOLEAN

\* A user who is idle has no stream open: its next stream is counted anew.
IdleIsClosed == \A u \in Users : pc[u] = "idle" => ~streaming[u]

\* Threads that were started and known stay started; what close() joined is dead when
\* it goes on to detach it; a frame is on offer only while its thread is past opening
\* and has not yet forgotten it.
Started     == \A n \in {current, joined} : n # None => capture[n] # "unborn"
JoinedIsDead == closer = "detach" /\ joined # None => capture[joined] = "dead"
Offering    == frame # None => /\ frame = current
                               /\ capture[frame] \in {"loop", "read", "release", "forget"}

LEMMA CaptureStepKeeps ==
  ASSUME Types, NEW n \in Threads, CaptureStep(n)
  PROVE  /\ Types'
         /\ UNCHANGED <<current, joined, pc, streaming, streams, closer>>
<1> USE DEF Types, At, flags, data, clients, closing, setting
<1>1. CASE OpenDevice(n)
  BY <1>1 DEF OpenDevice
<1>2. CASE GiveUp(n)
  BY <1>2 DEF GiveUp
<1>3. CASE Announce(n)
  BY <1>3 DEF Announce
<1>4. CASE CheckIdle(n)
  BY <1>4 DEF CheckIdle
<1>5. CASE ReadFrame(n)
  BY <1>5 DEF ReadFrame
<1>6. CASE Release(n)
  BY <1>6 DEF Release
<1>7. CASE ForgetFrame(n)
  BY <1>7 DEF ForgetFrame
<1>8. CASE LowerFlag(n)
  BY <1>8 DEF LowerFlag
<1>9. CASE EndThread(n)
  BY <1>9 DEF EndThread
<1> QED
  BY <1>1, <1>2, <1>3, <1>4, <1>5, <1>6, <1>7, <1>8, <1>9 DEF CaptureStep

LEMMA UserStepKeeps ==
  ASSUME Types, NEW u \in Users, Arrive(u) \/ Resume(u) \/ UserStep(u)
  PROVE  Types'
<1> USE CameraAssumption DEF CameraAssumption, Types, Go, Served, flags, data, clients, closing, setting
<1>1. CASE Arrive(u)
  <2>0. uses' \in 0..MaxUses
    BY <1>1 DEF Arrive
  <2>1. streaming' \in [Users -> BOOLEAN]
    <3>1. streaming' = streaming \/ streaming' = [streaming EXCEPT ![u] = TRUE]
      BY <1>1 DEF Arrive
    <3> QED
      BY <3>1
  <2>2. pc' = [pc EXCEPT ![u] = "ensure"] /\ UNCHANGED <<flags, data, capture, ping, closing, setting>>
    BY <1>1 DEF Arrive
  <2> QED
    BY <2>0, <2>1, <2>2
<1>2. CASE Resume(u)
  BY <1>2 DEF Resume
<1>3. CASE EnsureRunning(u)
  BY <1>3 DEF EnsureRunning
<1>4. CASE AwaitReady(u)
  BY <1>4 DEF AwaitReady
<1>5. CASE Touch(u)
  BY <1>5 DEF Touch
<1>6. CASE FetchFrame(u)
  BY <1>6 DEF FetchFrame
<1>7. CASE Process(u)
  <2>1. cache' \in BOOLEAN
    BY <1>7, Zenon DEF Process
  <2> QED
    BY <1>7, <2>1 DEF Process
<1>8. CASE CloseStream(u)
  BY <1>8 DEF CloseStream
<1> QED
  BY <1>1, <1>2, <1>3, <1>4, <1>5, <1>6, <1>7, <1>8 DEF UserStep

\* Steps that neither start or run a capture thread nor touch users.
Aside == \/ \E p \in Pingers : StartPing(p) \/ OpenPing(p) \/ ReleasePing(p)
         \/ PeekStatus \/ GrowOld \/ ExpireCache

LEMMA AsideKeeps ==
  ASSUME Types, Aside
  PROVE  Types' /\ UNCHANGED <<current, joined, closer, capture, frame, pc, streaming, streams>>
<1> USE DEF Types, flags, data, clients, closing, setting
<1>1. ASSUME NEW p \in Pingers, StartPing(p) \/ OpenPing(p) \/ ReleasePing(p)
      PROVE  Types' /\ UNCHANGED <<current, joined, closer, capture, frame, pc, streaming, streams>>
  BY <1>1 DEF StartPing, OpenPing, ReleasePing
<1>2. CASE PeekStatus \/ GrowOld \/ ExpireCache
  <2>1. cache' \in BOOLEAN /\ access' \in {"never", "recent", "old"}
    BY <1>2, Zenon DEF PeekStatus, GrowOld, ExpireCache
  <2>2. UNCHANGED <<flags, frame, capture, clients, ping, closing, setting>>
    BY <1>2, Zenon DEF PeekStatus, GrowOld, ExpireCache
  <2> QED
    BY <2>1, <2>2
<1> QED
  BY <1>1, <1>2 DEF Aside

LEMMA CloseKeeps ==
  ASSUME Types, Close
  PROVE  Types' /\ UNCHANGED <<capture, pc, streaming, streams>>
<1> USE DEF Types, flags, data, clients, closing, setting
<1>1. CASE RequestClose
  BY <1>1 DEF RequestClose
<1>2. CASE Join
  BY <1>2 DEF Join
<1>3. CASE Detach
  BY <1>3 DEF Detach
<1>4. CASE WipeFrame \/ ResetAccess
  BY <1>4 DEF WipeFrame, ResetAccess
<1> QED
  BY <1>1, <1>2, <1>3, <1>4 DEF Close

LEMMA Cases ==
  ASSUME Next
  PROVE  \/ \E n \in Threads : CaptureStep(n)
         \/ \E u \in Users : Arrive(u) \/ Resume(u) \/ UserStep(u)
         \/ Aside \/ Close
BY DEF Next, Aside

LEMMA TypesStep ==
  ASSUME Types, [Next]_vars
  PROVE  Types'
<1>1. CASE UNCHANGED vars
  BY <1>1 DEF Types, vars, flags, data, clients, closing, setting
<1>2. CASE Next
  BY <1>2, Cases, CaptureStepKeeps, UserStepKeeps, AsideKeeps, CloseKeeps
<1> QED
  BY <1>1, <1>2

LEMMA TypesInit == Init => Types
<1> SUFFICES ASSUME Init PROVE Types
  OBVIOUS
<1>1. running \in BOOLEAN /\ failed \in BOOLEAN /\ cache \in BOOLEAN
  BY Zenon DEF Init
<1>2. uses \in 0..MaxUses
  BY CameraAssumption DEF CameraAssumption, Init
<1>3. streaming \in [Users -> BOOLEAN]
  BY Zenon DEF Init
<1>4. /\ pc \in [Users -> {"idle", "ensure", "await", "touch", "fetch", "process", "paused"}]
      /\ ping \in [Pingers -> {"idle", "opening", "open"}]
      /\ capture \in [Threads -> {"unborn", "opening", "refused", "opened", "loop", "read",
                                   "release", "forget", "lower", "ending", "dead"}]
  BY DEF Init
<1> QED
  BY <1>1, <1>2, <1>3, <1>4 DEF Init, Types

-----------------------------------------------------------------------------
(* The count of the streams.                                               *)

Counts == IdleIsClosed /\ StreamsCounted

LEMMA CountsStep ==
  ASSUME Types, Counts, [Next]_vars
  PROVE  Counts'
<1>0. IsFiniteSet(Users) /\ IsFiniteSet(Open) /\ Open \subseteq Users
  BY CameraAssumption, FS_Subset DEF Open
<1>a. Cardinality(Open) \in Nat /\ streams = Cardinality(Open)
  BY <1>0, FS_CardinalityType DEF Counts, StreamsCounted, Open
<1>1. ASSUME UNCHANGED <<pc, streaming, streams>>
      PROVE  Counts'
  BY <1>1 DEF Counts, IdleIsClosed, StreamsCounted
<1>2. ASSUME NEW u \in Users, Arrive(u)
      PROVE  Counts'
  <2>1. IdleIsClosed'
    BY <1>2 DEF Arrive, Go, Types, Counts, IdleIsClosed
  <2>2. CASE UNCHANGED <<streaming, streams>>
    BY <2>1, <2>2 DEF Counts, StreamsCounted
  <2>3. CASE streaming' = [streaming EXCEPT ![u] = TRUE] /\ streams' = streams + 1
    <3>1. u \notin Open
      BY <1>2 DEF Arrive, Go, Counts, IdleIsClosed, Open
    <3>2. Open' = Open \cup {u}
      BY <2>3 DEF Open, Types
    <3>3. streams' = Cardinality(Open')
      BY <1>0, <1>a, <2>3, <3>1, <3>2, FS_AddElement
    <3> QED
      BY <2>1, <3>3 DEF Counts, StreamsCounted, Open
  <2> QED
    BY <1>2, <2>2, <2>3 DEF Arrive
<1>3. ASSUME NEW u \in Users, CloseStream(u)
      PROVE  Counts'
  <2>1. IdleIsClosed'
    BY <1>3 DEF CloseStream, Types, Counts, IdleIsClosed
  <2>2. u \in Open
    BY <1>3 DEF CloseStream, Open
  <2>3. Open' = Open \ {u}
    BY <1>3 DEF CloseStream, Open, Types
  <2>4. Cardinality(Open) > 0
    BY <1>0, <1>a, <2>2, FS_EmptySet
  <2>5. streams' = Cardinality(Open) - 1
    BY <1>3, <1>a, <2>4 DEF CloseStream
  <2>6. Cardinality(Open') = Cardinality(Open) - 1
    BY <1>0, <2>2, <2>3, FS_RemoveElement
  <2> QED
    BY <2>1, <2>5, <2>6 DEF Counts, StreamsCounted, Open
<1>4. ASSUME NEW u \in Users, UserStep(u) \/ Resume(u), ~CloseStream(u)
      PROVE  Counts'
  <2>1. UNCHANGED <<streaming, streams>>
    BY <1>4 DEF UserStep, Resume, EnsureRunning, AwaitReady, Touch, FetchFrame, Process
  <2>2. \E to : pc' = [pc EXCEPT ![u] = to] /\ (to = "idle" => ~streaming[u])
    BY <1>4 DEF UserStep, Resume, EnsureRunning, AwaitReady, Touch, FetchFrame, Process,
                Go, Served
  <2>3. IdleIsClosed'
    BY <2>1, <2>2 DEF Types, Counts, IdleIsClosed
  <2> QED
    BY <2>1, <2>3 DEF Counts, StreamsCounted
<1>5. CASE Next
  BY <1>1, <1>2, <1>3, <1>4, <1>5, Cases, CaptureStepKeeps, AsideKeeps, CloseKeeps
<1>6. CASE UNCHANGED vars
  BY <1>1, <1>6 DEF vars, clients
<1> QED
  BY <1>5, <1>6

LEMMA CountsInit == Init => Counts
<1> SUFFICES ASSUME Init PROVE Counts
  OBVIOUS
<1>1. {u \in Users : streaming[u]} = {}
  BY DEF Init
<1> QED
  BY <1>1, FS_EmptySet DEF Init, Counts, IdleIsClosed, StreamsCounted

LEMMA TypesAndCounts == Spec => [](Types /\ Counts)
<1>1. Init => Types /\ Counts
  BY TypesInit, CountsInit
<1>2. Types /\ Counts /\ [Next]_vars => (Types /\ Counts)'
  BY TypesStep, CountsStep
<1> QED
  BY <1>1, <1>2, PTL DEF Spec

\* Every variable keeps its type; _active_streams never drops below zero nor rises
\* above the number of clients.
THEOREM TypeCorrect == Spec => []TypeOK
<1>1. Types /\ Counts => TypeOK
  <2> SUFFICES ASSUME Types, Counts PROVE TypeOK
    OBVIOUS
  <2>1. IsFiniteSet(Users) /\ {u \in Users : streaming[u]} \subseteq Users
    BY CameraAssumption
  <2>2. streams \in 0..Cardinality(Users)
    BY <2>1, FS_Subset, FS_CardinalityType DEF Counts, StreamsCounted
  <2> QED
    BY <2>2 DEF Types, TypeOK
<1> QED
  BY <1>1, TypesAndCounts, PTL

\* _open_stream and _close_stream keep the count of the open streams, wherever a
\* stream is cancelled.
THEOREM StreamsAreCounted == Spec => []StreamsCounted
<1>1. Counts => StreamsCounted
  BY DEF Counts
<1> QED
  BY <1>1, TypesAndCounts, PTL

-----------------------------------------------------------------------------
(* The threads and their frames.                                           *)

ThreadsOK == KnownThread /\ Started /\ JoinedIsDead /\ Offering

LEMMA ThreadsStep ==
  ASSUME Types, Types', ThreadsOK, [Next]_vars
  PROVE  ThreadsOK'
<1> USE DEF ThreadsOK, KnownThread, Started, JoinedIsDead, Offering, Dead, None, Threads
<1>1. ASSUME NEW n \in Threads, CaptureStep(n)
      PROVE  ThreadsOK'
  <2>1. UNCHANGED <<current, joined, closer>>
    BY <1>1, CaptureStepKeeps
  <2>2. capture[n] \notin {"unborn", "dead"} /\ current = n
    BY <1>1 DEF CaptureStep, OpenDevice, GiveUp, Announce, CheckIdle, ReadFrame, Release,
                ForgetFrame, LowerFlag, EndThread, At
  <2>3. /\ \A m \in Threads \ {n} : capture'[m] = capture[m]
        /\ capture'[n] # "unborn"
    BY <1>1 DEF CaptureStep, OpenDevice, GiveUp, Announce, CheckIdle, ReadFrame, Release,
                ForgetFrame, LowerFlag, EndThread, At, Types
  <2>4. KnownThread' /\ Started' /\ JoinedIsDead'
    BY <2>1, <2>2, <2>3 DEF Types
  <2>5. Offering'
    BY <1>1, <2>2 DEF CaptureStep, OpenDevice, GiveUp, Announce, CheckIdle, ReadFrame,
                Release, ForgetFrame, LowerFlag, EndThread, At, Types, flags, data
  <2> QED
    BY <2>4, <2>5
<1>2. ASSUME NEW u \in Users, EnsureRunning(u)
      PROVE  ThreadsOK'
  <2>1. CASE Alive
    BY <1>2, <2>1 DEF EnsureRunning, flags, closing
  <2>2. CASE ~Alive
    <3>1. PICK n \in Threads : /\ capture[n] = "unborn" /\ current' = n
                               /\ capture' = [capture EXCEPT ![n] = "opening"]
      BY <1>2, <2>2 DEF EnsureRunning
    <3>2. \A m \in Threads : Dead(m)
      BY <2>2 DEF Alive, Types
    <3>3. UNCHANGED <<closer, joined, frame>> /\ frame = None
      BY <1>2, <2>2, <3>2 DEF EnsureRunning, closing, Types
    <3> QED
      BY <3>1, <3>2, <3>3 DEF Types
  <2> QED
    BY <2>1, <2>2
<1>3. ASSUME NEW u \in Users, Arrive(u) \/ Resume(u) \/ UserStep(u), ~EnsureRunning(u)
      PROVE  ThreadsOK'
  <2>1. UNCHANGED <<current, joined, closer, capture, frame>>
    BY <1>3 DEF Arrive, Resume, UserStep, AwaitReady, Touch, FetchFrame, Process,
                CloseStream, flags, data, closing
  <2> QED
    BY <2>1
<1>4. CASE Aside
  <2>1. UNCHANGED <<current, joined, closer, capture, frame>>
    BY <1>4, AsideKeeps
  <2> QED
    BY <2>1
<1>5. CASE RequestClose
  BY <1>5 DEF RequestClose, Alive, data, Types
<1>6. CASE Join
  BY <1>6 DEF Join, flags, data, Types
<1>7. CASE Detach
  BY <1>7 DEF Detach, data, Types
<1>8. CASE WipeFrame \/ ResetAccess
  BY <1>8 DEF WipeFrame, ResetAccess, flags
<1>9. CASE UNCHANGED vars
  BY <1>9 DEF vars, flags, data, closing
<1> QED
  BY <1>1, <1>2, <1>3, <1>4, <1>5, <1>6, <1>7, <1>8, <1>9, Cases DEF Close

LEMMA ThreadsInit == Init => ThreadsOK
BY DEF Init, ThreadsOK, KnownThread, Started, JoinedIsDead, Offering, Dead

LEMMA ThreadsAlways == Spec => []ThreadsOK
<1>1. Init => Types /\ ThreadsOK
  BY TypesInit, ThreadsInit
<1>2. Types /\ ThreadsOK /\ [Next]_vars => (Types /\ ThreadsOK)'
  BY TypesStep, ThreadsStep
<1> QED
  BY <1>1, <1>2, PTL DEF Spec

\* A capture thread that lives is _capture_thread, so at most one lives: idle
\* shutdown, starts and close() never lose or double one.
THEOREM ThreadIsKnown == Spec => []KnownThread
<1>1. ThreadsOK => KnownThread
  BY DEF ThreadsOK
<1> QED
  BY <1>1, ThreadsAlways, PTL

\* The latest frame is that of the living thread: what an ended capture saw last is
\* never served.
THEOREM FramesAreLive == Spec => []FrameIsLive
<1>1. ThreadsOK => FrameIsLive
  BY DEF ThreadsOK, Offering, FrameIsLive, Dead
<1> QED
  BY <1>1, ThreadsAlways, PTL

-----------------------------------------------------------------------------
(* The adapter does not stand in its own way.                              *)

\* Without health checks nobody holds the device but a capture thread that lives, and
\* no thread finds it taken.
Unhindered == calm => /\ ~failed
                      /\ \A p \in Pingers : ping[p] = "idle"
                      /\ \A n \in Threads : capture[n] # "refused"

LEMMA UnhinderedStep ==
  ASSUME Types, ThreadsOK, Unhindered, [Next]_vars
  PROVE  Unhindered'
<1>1. calm' = calm
  BY DEF Next, CaptureStep, OpenDevice, GiveUp, Announce, CheckIdle, ReadFrame, Release,
         ForgetFrame, LowerFlag, EndThread, Arrive, Resume, UserStep, EnsureRunning, AwaitReady,
         Touch, FetchFrame, Process, CloseStream, StartPing, OpenPing, ReleasePing, PeekStatus,
         Close, RequestClose, Join, Detach, WipeFrame, ResetAccess, GrowOld, ExpireCache,
         setting, vars
<1> SUFFICES ASSUME calm
             PROVE  /\ ~failed'
                    /\ \A p \in Pingers : ping'[p] = "idle"
                    /\ \A n \in Threads : capture'[n] # "refused"
  BY <1>1 DEF Unhindered
<1>2. /\ ~failed /\ \A p \in Pingers : ping[p] = "idle"
      /\ \A n \in Threads : capture[n] # "refused"
  BY DEF Unhindered
<1>3. ASSUME NEW n \in Threads, OpenDevice(n)
      PROVE  Unhindered'
  <2>1. UNCHANGED <<failed, ping>> /\ capture[n] = "opening"
    BY <1>3 DEF OpenDevice, At, flags
  <2>2. current = n
    BY <2>1 DEF ThreadsOK, KnownThread, Dead
  <2>3. \A m \in Threads : capture[m] \notin Holding
    BY <2>1, <2>2 DEF ThreadsOK, KnownThread, Dead, Holding
  <2>4. Holders = {}
    BY <1>2, <2>3 DEF Holders
  <2>5. capture' = [capture EXCEPT ![n] = "opened"]
    BY <1>3, <2>4 DEF OpenDevice, At
  <2> QED
    BY <1>2, <2>1, <2>5 DEF Types, Unhindered
<1>4. ASSUME NEW n \in Threads, CaptureStep(n), ~OpenDevice(n)
      PROVE  Unhindered'
  <2>1. ~GiveUp(n)
    BY <1>2 DEF GiveUp, At
  <2>2. /\ ping' = ping /\ failed' \in {failed, FALSE}
        /\ \E to : to # "refused" /\ capture' = [capture EXCEPT ![n] = to]
    BY <1>4, <2>1 DEF CaptureStep, Announce, CheckIdle, ReadFrame, Release, ForgetFrame,
                      LowerFlag, EndThread, At, flags
  <2> QED
    BY <1>2, <2>2 DEF Types, Unhindered
<1>5. ASSUME NEW u \in Users, Arrive(u) \/ Resume(u) \/ UserStep(u)
      PROVE  Unhindered'
  <2>1. /\ ping' = ping /\ failed' \in {failed, FALSE}
        /\ \/ capture' = capture
           \/ \E n \in Threads : capture' = [capture EXCEPT ![n] = "opening"]
    BY <1>5 DEF Arrive, Resume, UserStep, EnsureRunning, AwaitReady, Touch, FetchFrame, Process,
                CloseStream, flags
  <2> QED
    BY <1>2, <2>1 DEF Types, Unhindered
<1>6. ASSUME Aside PROVE Unhindered'
  <2>1. capture' = capture
    BY <1>6, AsideKeeps
  <2>2. failed' = failed
    BY <1>6 DEF Aside, StartPing, OpenPing, ReleasePing, PeekStatus, GrowOld, ExpireCache, flags
  <2>3. ping' = ping
    <3>1. ASSUME NEW p \in Pingers PROVE ~StartPing(p) /\ ~OpenPing(p) /\ ~ReleasePing(p)
      BY <1>2 DEF StartPing, OpenPing, ReleasePing
    <3> QED
      BY <1>6, <3>1 DEF Aside, PeekStatus, GrowOld, ExpireCache
  <2> QED
    BY <1>2, <2>1, <2>2, <2>3 DEF Unhindered
<1>7. ASSUME Close PROVE Unhindered'
  <2>1. UNCHANGED <<capture, failed, ping>>
    BY <1>7 DEF Close, RequestClose, Join, Detach, WipeFrame, ResetAccess, flags
  <2> QED
    BY <1>2, <2>1 DEF Unhindered
<1>8. ASSUME UNCHANGED vars PROVE Unhindered'
  BY <1>2, <1>8 DEF Unhindered, vars, flags
<1>9. ASSUME NEW n \in Threads, CaptureStep(n)
      PROVE  Unhindered'
  BY <1>3, <1>4, <1>9
<1>10. Unhindered'
  <2>1. ASSUME Next PROVE Unhindered'
    BY <1>5, <1>6, <1>7, <1>9, <2>1, Cases
  <2> QED
    BY <1>8, <2>1
<1> QED
  BY <1>1, <1>10 DEF Unhindered

\* However idle time-out, close() and new starts overlap, no start of the capture fails
\* because the adapter itself still holds the camera, as long as nobody asks for the
\* health of the camera.
THEOREM NeverInItsOwnWay == Spec => []NoErrorOfItsOwn
<1>1. Init => Unhindered
  BY DEF Init, Unhindered
<1>2. Unhindered => NoErrorOfItsOwn
  BY DEF Unhindered, NoErrorOfItsOwn
<1>3. Init => Types /\ ThreadsOK
  BY TypesInit, ThreadsInit
<1>4. Types /\ ThreadsOK /\ [Next]_vars => (Types /\ ThreadsOK)'
  BY TypesStep, ThreadsStep
<1> QED
  BY <1>1, <1>2, <1>3, <1>4, UnhinderedStep, PTL DEF Spec
==============================================================================
