---------------------------- MODULE ScanSession ----------------------------
(***************************************************************************)
(* The IonVision scan of every waypoint of a job: what JobRunner's action  *)
(* ScanWaypoint stands for. The job thread (_execute_job,                  *)
(* _wait_for_scan_results_processed and _poll_latest_dataobject in         *)
(* app/services/orchestrator.py) starts a scan over HTTP, waits on two     *)
(* threading.Events that the websocket handlers set on the event loop, and *)
(* fetches "the latest result". Nothing in that exchange names the scan.   *)
(*                                                                         *)
(* The device itself is external: it finishes a scan, processes it, and    *)
(* tells the websocket, in its own time. The mock adapter does all three   *)
(* before start_new_scan returns.                                          *)
(***************************************************************************)
EXTENDS Integers, Sequences

CONSTANTS
  PathLen,     \* waypoints of the job
  LinkMayDrop  \* TRUE: the websocket may be closed by the other side

ASSUME ScanSessionAssumption == PathLen \in Nat \ {0} /\ LinkMayDrop \in BOOLEAN

VARIABLES
  \* the job thread
  pc, result,     \* where it is, and scan_result (0 stands for None)
  measured,       \* scan_result of the measurements recorded so far
  \* attributes of OrchestratorService
  processed,      \* _scan_results_processed_event
  stopped,        \* _scan_stopped_event
  listening,      \* _ionvision_ws_initialized
  stopRequested,
  \* the adapter
  mock,           \* NENABOT_MOCK_MODE
  link,           \* TRUE while _listen_loop runs
  inbox,          \* websocket messages not yet dispatched
  \* the device; scans are numbered in the order in which they started
  scanning,       \* the scan under way, or 0
  finished,       \* scans that ended and wait to be processed
  results,        \* scans whose results it stores, oldest first
  waypointOf,     \* waypointOf[n]: the waypoint for which scan n was started
  prompt          \* TRUE: every answer and event comes before the code gives up on it

threadVars == <<pc, result, measured>>
flags      == <<processed, stopped, listening, stopRequested>>
wire       == <<mock, link, inbox>>
device     == <<scanning, finished, results, waypointOf, prompt>>
vars       == <<threadVars, flags, wire, device>>

None     == 0
Waypoint == Len(measured)             \* index of the current waypoint
Scans    == 1..PathLen                \* at most one is started at a waypoint
NewScan  == Len(waypointOf) + 1
Steps    == {"check", "clear", "forget", "start", "wait", "poll", "record", "done"}

\* A failed initialize_ionvision at startup is only logged: no events at all.
Init ==
  /\ pc = "check" /\ result = None /\ measured = <<>>
  /\ processed = FALSE /\ stopped = FALSE /\ stopRequested = FALSE
  /\ mock \in BOOLEAN
  /\ listening \in IF mock THEN {TRUE} ELSE BOOLEAN
  /\ link = listening
  /\ inbox = <<>>
  /\ scanning = None /\ finished = <<>> /\ results = <<>> /\ waypointOf = <<>>
  /\ prompt \in BOOLEAN

Go(from, to) == pc = from /\ pc' = to

-----------------------------------------------------------------------------
(* The job thread, one waypoint after the other.                           *)

\* Wrong (no specification uses it): one waypoint too many.
NextWaypoint_OneMore ==
  /\ Go("check", IF Waypoint <= PathLen /\ ~stopRequested THEN "clear" ELSE "done")
  /\ result' = None
  /\ UNCHANGED <<measured, flags, wire, device>>

NextWaypoint ==
  /\ Go("check", IF Waypoint < PathLen /\ ~stopRequested THEN "clear" ELSE "done")
  /\ result' = None
  /\ UNCHANGED <<measured, flags, wire, device>>

\* Wrong: the events of the waypoint before are kept.
ClearProcessed_Kept ==
  /\ Go("clear", "forget")
  /\ UNCHANGED <<result, measured, flags, wire, device>>

ClearProcessed ==
  /\ Go("clear", "forget")
  /\ processed' = FALSE
  /\ UNCHANGED <<result, measured, stopped, listening, stopRequested, wire, device>>

ClearStopped ==
  /\ Go("forget", "start")
  /\ stopped' = FALSE
  /\ UNCHANGED <<result, measured, processed, listening, stopRequested, wire, device>>

\* A scan of the current waypoint begins on an idle device.
BeginScan ==
  /\ scanning = None
  /\ waypointOf' = Append(waypointOf, Waypoint)
  /\ UNCHANGED prompt

\* Wrong: the events are cleared when the scan has started.
StartScan_ClearsLate ==
  \/ /\ BeginScan
     /\ Go("start", "wait")
     /\ IF mock THEN results' = Append(results, NewScan) /\ UNCHANGED scanning
                ELSE scanning' = NewScan /\ UNCHANGED results
     /\ processed' = FALSE
     /\ UNCHANGED <<result, measured, stopped, listening, stopRequested, wire, finished>>
  \/ /\ scanning # None
     /\ Go("start", "record")
     /\ UNCHANGED <<result, measured, flags, wire, device>>

\* POST /currentScan. The mock emits scan.resultsProcessed inside the call. A busy
\* device answers 409; an answer may also be lost, with or without the scan.
StartScan ==
  \/ /\ mock /\ BeginScan
     /\ Go("start", "wait")
     /\ results' = Append(results, NewScan)
     /\ processed' = TRUE
     /\ UNCHANGED <<result, measured, stopped, listening, stopRequested, wire, scanning, finished>>
  \/ /\ ~mock /\ BeginScan
     /\ Go("start", "wait") \/ (~prompt /\ Go("start", "record"))
     /\ scanning' = NewScan
     /\ UNCHANGED <<result, measured, flags, wire, finished, results>>
  \/ /\ ~mock
     /\ scanning # None \/ ~prompt
     /\ Go("start", "record")
     /\ UNCHANGED <<result, measured, flags, wire, device>>

\* Something that ends the wait has happened or may still happen.
MayHear == processed \/ stopped \/ (link /\ (scanning # None \/ finished # <<>> \/ inbox # <<>>))

\* _wait_for_scan_results_processed: scan.resultsProcessed.
HearProcessed ==
  /\ listening /\ processed
  /\ Go("wait", "poll")
  /\ UNCHANGED <<result, measured, flags, wire, device>>

\* Wrong: the wait has no deadline.
GiveUpWaiting_Never ==
  /\ ~listening \/ stopped
  /\ Go("wait", "record")
  /\ UNCHANGED <<result, measured, flags, wire, device>>

\* ... no websocket, scan.stopped, or 45 s without either. No result is fetched.
GiveUpWaiting ==
  /\ ~listening \/ stopped \/ ~prompt \/ ~MayHear
  /\ Go("wait", "record")
  /\ UNCHANGED <<result, measured, flags, wire, device>>

\* _poll_latest_dataobject: whatever the device has as its latest result (an empty
\* answer while it has none counts as one). Until then it tries again.
PollLatest ==
  /\ Go("poll", "record")
  /\ result' = IF results = <<>> THEN None ELSE results[Len(results)]
  /\ UNCHANGED <<measured, flags, wire, device>>

\* ... 30 s of failing requests, or a failing request after a stop.
GiveUpPolling ==
  /\ ~prompt
  /\ Go("poll", "record")
  /\ UNCHANGED <<result, measured, flags, wire, device>>

\* The measurement is recorded with the result or without.
Record ==
  /\ Go("record", "check")
  /\ measured' = Append(measured, result)
  /\ UNCHANGED <<result, flags, wire, device>>

-----------------------------------------------------------------------------
(* The event loop, the user, and the device.                               *)

\* _dispatch_event and the two handlers.
Dispatch ==
  /\ link /\ inbox # <<>>
  /\ inbox' = Tail(inbox)
  /\ IF Head(inbox) = "processed" THEN processed' = TRUE /\ UNCHANGED stopped
                                  ELSE stopped' = TRUE /\ UNCHANGED processed
  /\ UNCHANGED <<threadVars, listening, stopRequested, mock, link, device>>

\* The other side closes the connection: _listen_loop ends, and nobody reconnects
\* or resets _ionvision_ws_initialized.
DropLink ==
  /\ LinkMayDrop /\ ~mock /\ link
  /\ link' = FALSE
  /\ inbox' = <<>>
  /\ UNCHANGED <<threadVars, flags, mock, device>>

\* stop_job sets the flag; the wait for the scan does not look at it.
RequestStop ==
  /\ ~stopRequested /\ pc # "done"
  /\ stopRequested' = TRUE
  /\ UNCHANGED <<threadVars, processed, stopped, listening, wire, device>>

Tell(event) == inbox' = IF link THEN Append(inbox, event) ELSE inbox

FinishScan ==
  /\ scanning # None
  /\ scanning' = None
  /\ finished' = Append(finished, scanning)
  /\ UNCHANGED <<threadVars, flags, wire, results, waypointOf, prompt>>

ProcessResults ==
  /\ finished # <<>>
  /\ finished' = Tail(finished)
  /\ results' = Append(results, Head(finished))
  /\ Tell("processed")
  /\ UNCHANGED <<threadVars, flags, mock, link, scanning, waypointOf, prompt>>

\* Somebody stops the scan at the device, or the device gives up.
StopScan ==
  /\ scanning # None
  /\ scanning' = None
  /\ Tell("stopped")
  /\ UNCHANGED <<threadVars, flags, mock, link, finished, results, waypointOf, prompt>>

Finished == pc = "done" /\ UNCHANGED vars

-----------------------------------------------------------------------------
Thread ==
  \/ NextWaypoint \/ ClearProcessed \/ ClearStopped \/ StartScan
  \/ HearProcessed \/ GiveUpWaiting \/ PollLatest \/ GiveUpPolling \/ Record

Environment ==
  Dispatch \/ DropLink \/ RequestStop \/ FinishScan \/ ProcessResults \/ StopScan

Next == Thread \/ Environment \/ Finished

Spec == Init /\ [][Next]_vars

\* The interpreter schedules the thread; nothing is expected of the device.
FairSpec == Spec /\ WF_vars(Thread)

-----------------------------------------------------------------------------
(* Properties                                                              *)

ScanTypeOK ==
  /\ pc \in Steps
  /\ result \in Scans \cup {None}
  /\ measured \in Seq(Scans \cup {None}) /\ Len(measured) <= PathLen
  /\ {processed, stopped, listening, stopRequested, mock, link, prompt}
       \subseteq BOOLEAN
  /\ inbox \in Seq({"processed", "stopped"})
  /\ scanning \in Scans \cup {None}
  /\ finished \in Seq(Scans)
  /\ results \in Seq(Scans)
  /\ waypointOf \in Seq(0..PathLen - 1) /\ Len(waypointOf) <= PathLen

\* The result stored with a waypoint is the result of the scan started there, never
\* what the device still had from an earlier one, as long as the device and the
\* network keep to the code's deadlines. (A scan.resultsProcessed that comes after
\* its waypoint gave up ends the wait of the next one.)
OwnResultWhenPrompt ==
  prompt => \A i \in 1..Len(measured) :
    measured[i] # None => waypointOf[measured[i]] = i - 1

\* No wake-up is lost: with a prompt device and the websocket up, a scan whose results were processed
\* is found in the measurement of its waypoint.
ProcessedIsRecorded ==
  prompt /\ link => \A k \in 1..Len(results) :
    LET i == waypointOf[results[k]] + 1 IN i <= Len(measured) => measured[i] = results[k]

\* However late the device and the network are, and whatever becomes of the
\* websocket, the thread gets through its waypoints: no wait is for ever.
ScansEnd == ~prompt ~> pc = "done"
=============================================================================
