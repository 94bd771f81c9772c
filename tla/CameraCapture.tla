--------------------------- MODULE CameraCapture ---------------------------
(***************************************************************************)
(* The shared capture of CameraVisionAdapter                               *)
(* (app/adapters/camera_vision.py): one background thread owns the         *)
(* VideoCapture and publishes the latest frame; requests and MJPEG streams *)
(* start it when they need a frame and it ends itself when nobody has      *)
(* asked for one for CAPTURE_IDLE_TIMEOUT_S. GET /status peeks at the      *)
(* frame without starting or prolonging the capture, GET /health opens a   *)
(* VideoCapture of its own, and the lifespan's shutdown closes the adapter *)
(* while chunks of cancelled streams may still run in the thread pool.     *)
(*                                                                         *)
(* Time is a choice: the last access grows old, waits end early or late.   *)
(* The pixels, the detection and the encoding are left out. The device is  *)
(* external: it opens for one holder and may refuse.                       *)
(***************************************************************************)
EXTENDS Integers, FiniteSets

CONSTANTS
  Users,      \* requests and streams that want frames
  Pingers,    \* GET /health requests
  MaxStarts,  \* bound: capture threads started
  MaxUses     \* bound: requests and chunks served

ASSUME CameraAssumption ==
  MaxStarts \in Nat /\ MaxUses \in Nat /\ IsFiniteSet(Users)

VARIABLES
  \* attributes of CameraVisionAdapter; threads are numbered as they start
  current,    \* _capture_thread, or 0 for None
  running,    \* _capture_running
  failed,     \* _capture_error is set
  access,     \* _capture_last_access: "never" (0.0), "recent" or "old"
  frame,      \* _latest_frame: the thread it came from, or 0 for None
  cache,      \* _checkerboard_status_cache is set
  streams,    \* _active_streams
  \* the processes
  capture,    \* capture[n]: where capture thread n is
  pc,         \* pc[u]: where user u is
  streaming,  \* streaming[u]: the generator of a stream is open
  ping,       \* ping[p]: where health check p is
  closer,     \* where close() is
  joined,     \* the thread close() waits for
  uses,
  \* the setting
  calm,       \* TRUE: the device opens whenever nobody holds it, and GET /health is not called
  shutdown    \* TRUE: close() will be called

flags   == <<current, running, failed>>
data    == <<access, frame, cache>>
clients == <<pc, streaming, streams, uses>>
closing == <<closer, joined>>
setting == <<calm, shutdown>>
vars    == <<flags, data, capture, clients, ping, closing, setting>>

None    == 0
Threads == 1..MaxStarts
Holding == {"opened", "loop", "read", "release"}

Dead(n)  == capture[n] \in {"unborn", "dead"}
\* Wrong: the flag says whether a thread runs.
Alive_ByFlag == current # None /\ running
\* _capture_alive
Alive    == current # None /\ ~Dead(current)

\* Who has the device open.
Holders  == {n \in Threads : capture[n] \in Holding} \cup {p \in Pingers : ping[p] = "open"}

Init ==
  /\ current = None /\ running = FALSE /\ failed = FALSE
  /\ access = "never" /\ frame = None /\ cache = FALSE
  /\ streams = 0 /\ uses = 0
  /\ capture = [n \in Threads |-> "unborn"]
  /\ pc = [u \in Users |-> "idle"] /\ streaming = [u \in Users |-> FALSE]
  /\ ping = [p \in Pingers |-> "idle"]
  /\ closer = "idle" /\ joined = None
  /\ calm \in BOOLEAN /\ shutdown \in BOOLEAN

At(n, from, to)  == capture[n] = from /\ capture' = [capture EXCEPT ![n] = to]
Go(u, from, to)  == pc[u] = from /\ pc' = [pc EXCEPT ![u] = to]

-----------------------------------------------------------------------------
(* The capture thread: _capture_loop.                                      *)

OpenDevice(n) ==
  /\ \/ At(n, "opening", "opened") /\ Holders = {}
     \/ At(n, "opening", "refused") /\ (calm => Holders # {})
  /\ UNCHANGED <<flags, data, clients, ping, closing, setting>>

GiveUp(n) ==
  /\ At(n, "refused", "ending")
  /\ failed' = TRUE /\ running' = FALSE
  /\ UNCHANGED <<current, data, clients, ping, closing, setting>>

\* It sets the flag whatever close() has done to it in the meantime.
Announce(n) ==
  /\ At(n, "opened", "loop")
  /\ failed' = FALSE /\ running' = TRUE
  /\ UNCHANGED <<current, data, clients, ping, closing, setting>>

\* Wrong: no idle timeout.
CheckIdle_Never(n) ==
  /\ At(n, "loop", IF running THEN "read" ELSE "release")
  /\ UNCHANGED <<flags, data, clients, ping, closing, setting>>

CheckIdle(n) ==
  /\ At(n, "loop", IF running /\ access # "old" THEN "read" ELSE "release")
  /\ UNCHANGED <<flags, data, clients, ping, closing, setting>>

ReadFrame(n) ==
  /\ At(n, "read", "loop")
  /\ frame' \in {frame, n}
  /\ UNCHANGED <<flags, access, cache, clients, ping, closing, setting>>

\* The finally block, in its order.
Release(n) ==
  /\ At(n, "release", "forget")
  /\ UNCHANGED <<flags, data, clients, ping, closing, setting>>

\* Wrong: the last frame stays.
ForgetFrame_Kept(n) ==
  /\ At(n, "forget", "lower")
  /\ UNCHANGED <<flags, data, clients, ping, closing, setting>>

ForgetFrame(n) ==
  /\ At(n, "forget", "lower")
  /\ frame' = None
  /\ UNCHANGED <<flags, access, cache, clients, ping, closing, setting>>

LowerFlag(n) ==
  /\ At(n, "lower", "ending")
  /\ running' = FALSE /\ cache' = FALSE
  /\ UNCHANGED <<current, failed, access, frame, clients, ping, closing, setting>>

EndThread(n) ==
  /\ At(n, "ending", "dead")
  /\ UNCHANGED <<flags, data, clients, ping, closing, setting>>

CaptureStep(n) ==
  \/ OpenDevice(n) \/ GiveUp(n) \/ Announce(n) \/ CheckIdle(n) \/ ReadFrame(n)
  \/ Release(n) \/ ForgetFrame(n) \/ LowerFlag(n) \/ EndThread(n)

-----------------------------------------------------------------------------
(* Requests and streams.                                                   *)

\* A request, or a stream of them. None arrives once the shutdown has begun.
Arrive(u) ==
  /\ Go(u, "idle", "ensure")
  /\ closer = "idle" /\ uses < MaxUses
  /\ uses' = uses + 1
  /\ \/ UNCHANGED <<streaming, streams>>
     \/ streaming' = [streaming EXCEPT ![u] = TRUE] /\ streams' = streams + 1
  /\ UNCHANGED <<flags, data, capture, ping, closing, setting>>

\* _ensure_capture_running under _capture_lock: touch the thread or start one.
EnsureRunning(u) ==
  /\ access' = "recent"
  /\ IF Alive
     THEN Go(u, "ensure", "touch") /\ UNCHANGED <<flags, capture>>
     ELSE /\ Go(u, "ensure", "await")
          /\ \E n \in Threads :
               /\ capture[n] = "unborn" /\ \A m \in 1..(n - 1) : capture[m] # "unborn"
               /\ capture' = [capture EXCEPT ![n] = "opening"]
               /\ current' = n
          /\ failed' = FALSE /\ running' = TRUE
  /\ UNCHANGED <<frame, cache, streaming, streams, uses, ping, closing, setting>>

\* What a served request or chunk does next: a stream pauses, a request is over.
Served(u, from) == Go(u, from, IF streaming[u] THEN "paused" ELSE "idle")

\* It waits for _capture_ready, at most a second, and goes on whichever came first,
\* unless it finds an error.
AwaitReady(u) ==
  /\ IF failed THEN Served(u, "await") ELSE Go(u, "await", "touch")
  /\ UNCHANGED <<flags, data, capture, streaming, streams, uses, ping, closing, setting>>

\* get_latest_frame
Touch(u) ==
  /\ Go(u, "touch", "fetch")
  /\ access' = "recent"
  /\ UNCHANGED <<flags, frame, cache, capture, streaming, streams, uses, ping, closing, setting>>

\* A frame within the time-out, or none.
FetchFrame(u) ==
  /\ \/ frame # None /\ Go(u, "fetch", "process")
     \/ Served(u, "fetch")
  /\ UNCHANGED <<flags, data, capture, streaming, streams, uses, ping, closing, setting>>

\* Those that look for the checkerboard cache what they saw.
Process(u) ==
  /\ Served(u, "process")
  /\ cache' \in {cache, TRUE}
  /\ UNCHANGED <<flags, access, frame, capture, streaming, streams, uses, ping, closing, setting>>

\* The next chunk of a stream.
Resume(u) ==
  /\ Go(u, "paused", "ensure")
  /\ uses < MaxUses /\ uses' = uses + 1
  /\ UNCHANGED <<flags, data, capture, streaming, streams, ping, closing, setting>>

\* Wrong: a stream that was never opened is counted out as well.
CloseStream_Unopened(u) ==
  /\ streaming' = [streaming EXCEPT ![u] = FALSE]
  /\ streams' = streams - 1
  /\ pc' = [pc EXCEPT ![u] = IF @ = "paused" THEN "idle" ELSE @]
  /\ UNCHANGED <<flags, data, capture, uses, ping, closing, setting>>

\* Wrong: the stream is not counted out when it is cancelled inside a chunk.
CloseStream_OnlyPaused(u) ==
  /\ streaming[u]
  /\ streaming' = [streaming EXCEPT ![u] = FALSE]
  /\ streams' = IF pc[u] = "paused" THEN streams - 1 ELSE streams
  /\ pc' = [pc EXCEPT ![u] = IF @ = "paused" THEN "idle" ELSE @]
  /\ UNCHANGED <<flags, data, capture, uses, ping, closing, setting>>

\* The client goes away or the server cancels the stream; a chunk under way in the
\* thread pool runs on.
CloseStream(u) ==
  /\ streaming[u]
  /\ streaming' = [streaming EXCEPT ![u] = FALSE]
  /\ streams' = IF streams > 0 THEN streams - 1 ELSE streams
  /\ pc' = [pc EXCEPT ![u] = IF @ = "paused" THEN "idle" ELSE @]
  /\ UNCHANGED <<flags, data, capture, uses, ping, closing, setting>>

\* GET /status, without a cached answer: the checkerboard in the latest frame, if any.
PeekStatus ==
  /\ Alive /\ ~cache /\ frame # None
  /\ cache' = TRUE
  /\ UNCHANGED <<flags, access, frame, capture, clients, ping, closing, setting>>

UserStep(u) ==
  \/ EnsureRunning(u) \/ AwaitReady(u) \/ Touch(u) \/ FetchFrame(u) \/ Process(u)
  \/ CloseStream(u)

-----------------------------------------------------------------------------
(* Health checks, the end of the service, and time.                        *)

\* ping(): only when no thread is alive at that moment.
StartPing(p) ==
  /\ ~calm /\ ping[p] = "idle" /\ ~Alive
  /\ ping' = [ping EXCEPT ![p] = "opening"]
  /\ UNCHANGED <<flags, data, capture, clients, closing, setting>>

OpenPing(p) ==
  /\ ping[p] = "opening"
  /\ \/ Holders = {} /\ ping' = [ping EXCEPT ![p] = "open"]
     \/ ping' = [ping EXCEPT ![p] = "idle"]
  /\ UNCHANGED <<flags, data, capture, clients, closing, setting>>

ReleasePing(p) ==
  /\ ping[p] = "open"
  /\ ping' = [ping EXCEPT ![p] = "idle"]
  /\ UNCHANGED <<flags, data, capture, clients, closing, setting>>

\* close(), first section under the lock.
RequestClose ==
  /\ shutdown /\ closer = "idle"
  /\ running' = FALSE /\ joined' = current
  /\ closer' = IF Alive THEN "join" ELSE "detach"
  /\ UNCHANGED <<current, failed, data, capture, clients, ping, setting>>

\* Wrong: the thread is given up for dead after the time-out.
Join_Assumes ==
  /\ closer = "join" /\ closer' = "detach"
  /\ UNCHANGED <<flags, data, capture, clients, ping, joined, setting>>

\* join(timeout): on a time-out close() returns with a warning and changes nothing.
Join ==
  /\ closer = "join"
  /\ \/ Dead(joined) /\ closer' = "detach"
     \/ ~Dead(joined) /\ closer' = "done"
  /\ UNCHANGED <<flags, data, capture, clients, ping, joined, setting>>

Detach ==
  /\ closer = "detach" /\ closer' = "wipe"
  /\ current' = IF current = joined THEN None ELSE current
  /\ UNCHANGED <<running, failed, data, capture, clients, ping, joined, setting>>

WipeFrame ==
  /\ closer = "wipe" /\ closer' = "reset"
  /\ frame' = None
  /\ UNCHANGED <<flags, access, cache, capture, clients, ping, joined, setting>>

ResetAccess ==
  /\ closer = "reset" /\ closer' = "done"
  /\ access' = "never" /\ cache' = FALSE
  /\ UNCHANGED <<flags, frame, capture, clients, ping, joined, setting>>

Close == RequestClose \/ Join \/ Detach \/ WipeFrame \/ ResetAccess

\* CAPTURE_IDLE_TIMEOUT_S pass without an access.
GrowOld ==
  /\ access = "recent" /\ access' = "old"
  /\ UNCHANGED <<flags, frame, cache, capture, clients, ping, closing, setting>>

\* CHECKERBOARD_STATUS_CACHE_TTL_S pass.
ExpireCache ==
  /\ cache /\ cache' = FALSE
  /\ UNCHANGED <<flags, access, frame, capture, clients, ping, closing, setting>>

Next ==
  \/ \E n \in Threads : CaptureStep(n)
  \/ \E u \in Users : Arrive(u) \/ Resume(u) \/ UserStep(u)
  \/ \E p \in Pingers : StartPing(p) \/ OpenPing(p) \/ ReleasePing(p)
  \/ PeekStatus \/ Close \/ GrowOld \/ ExpireCache

\* The threads run, time passes, and clients go away in the end; a device call
\* returns. Nobody has to come, to look at the status or to shut down.
Fairness ==
  /\ \A n \in Threads : WF_vars(CaptureStep(n))
  /\ \A u \in Users : WF_vars(UserStep(u))
  /\ WF_vars(GrowOld)

Spec == Init /\ [][Next]_vars /\ Fairness

-----------------------------------------------------------------------------
(* Properties.                                                             *)

TypeOK ==
  /\ current \in Threads \cup {None} /\ joined \in Threads \cup {None}
  /\ frame \in Threads \cup {None}
  /\ running \in BOOLEAN /\ failed \in BOOLEAN /\ cache \in BOOLEAN
  /\ access \in {"never", "recent", "old"}
  /\ capture \in [Threads -> {"unborn", "opening", "refused", "opened", "loop", "read",
                              "release", "forget", "lower", "ending", "dead"}]
  /\ pc \in [Users -> {"idle", "ensure", "await", "touch", "fetch", "process", "paused"}]
  /\ streaming \in [Users -> BOOLEAN]
  /\ streams \in 0..Cardinality(Users) /\ uses \in 0..MaxUses
  /\ ping \in [Pingers -> {"idle", "opening", "open"}]
  /\ closer \in {"idle", "join", "detach", "wipe", "reset", "done"}
  /\ calm \in BOOLEAN /\ shutdown \in BOOLEAN

\* Every capture thread that lives is the one the adapter knows of: idle shutdown,
\* a new start and close() may overlap, but no thread is ever lost or doubled.
KnownThread == \A n \in Threads : ~Dead(n) => current = n

\* A frame on offer comes from the thread that lives: what an ended capture saw
\* last is never served again.
FrameIsLive == frame # None => frame = current /\ ~Dead(frame)

\* The adapter never stands in its own way: a device that opens for anybody who
\* finds it free never makes a start fail, as long as GET /health is not called.
NoErrorOfItsOwn == calm => ~failed

\* _active_streams counts the open streams, wherever a stream is cancelled.
StreamsCounted == streams = Cardinality({u \in Users : streaming[u]})

\* The camera is released when nobody wants frames, however often the status is
\* asked for. (A close() that races with a chunk may take the idle time-out away.)
CaptureEnds == ~shutdown => <>[](\A n \in Threads : Dead(n))
=============================================================================
