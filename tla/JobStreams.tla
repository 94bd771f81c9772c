----------------------------- MODULE JobStreams -----------------------------
(***************************************************************************)
(* Job execution together with the server-sent event streams that report   *)
(* it: JobRunner's steps, the queues of EventBus, and the generator behind *)
(* GET /job/{id}/events (_job_events_stream in app/api/routes.py). The     *)
(* generator runs on the event loop, the job thread and the requests on    *)
(* other threads, so they interleave between any two of its statements.    *)
(***************************************************************************)
EXTENDS JobRunner

CONSTANT Streams   \* connections to GET /job/{id}/events

VARIABLES
  topic, queue,    \* the subscriber lists, see EventBus
  streamPc,        \* where the generator of a stream is
  streamJob,       \* its job_id
  snapshot,        \* state and progress of the row it read
  sent             \* the events the client received, snapshot included

streamVars == <<topic, queue, streamPc, streamJob, snapshot, sent>>
allVars    == <<vars, streamVars>>

StreamSteps == {"idle", "open", "read", "subscribed", "streaming", "closed"}

Event == [type : {"snapshot", "started", "waypoint_started", "waypoint_completed"} \cup Terminal,
          state : States, points : 0..PathLen]
NoSnapshot == [type |-> "snapshot", state |-> "created", points |-> 0]

Bus == INSTANCE EventBus

StreamsInit ==
  /\ Init
  /\ Bus!BusInit
  /\ streamPc = [s \in Streams |-> "idle"]
  /\ streamJob = [s \in Streams |-> NoJob]
  /\ snapshot = [s \in Streams |-> NoSnapshot]
  /\ sent = [s \in Streams |-> <<>>]

-----------------------------------------------------------------------------
(* The publishing steps of run_job and _execute_job, with their payloads.  *)

AnnounceStarted(c) ==
  /\ PublishStarted(c)
  /\ Bus!Publish(reqJob[c], [type |-> "started", state |-> "running", points |-> 0])
  /\ UNCHANGED <<streamPc, streamJob, snapshot, sent>>

AnnounceWaypointStarted(j) ==
  /\ PublishWaypointStarted(j)
  /\ Bus!Publish(j, [type |-> "waypoint_started", state |-> "running", points |-> jobLast[j]])
  /\ UNCHANGED <<streamPc, streamJob, snapshot, sent>>

\* Wrong variants, which no specification uses, carry a suffix as in JobRunner.
\* Wrong: the number of points is counted twice.
AnnounceWaypointCompleted_OneMore(j) ==
  /\ PublishWaypointCompleted(j)
  /\ Bus!Publish(j, [type |-> "waypoint_completed", state |-> "running",
                     points |-> jobLast[j] + 1])
  /\ UNCHANGED <<streamPc, streamJob, snapshot, sent>>

AnnounceWaypointCompleted(j) ==
  /\ PublishWaypointCompleted(j)
  /\ Bus!Publish(j, [type |-> "waypoint_completed", state |-> "running", points |-> jobLast[j]])
  /\ UNCHANGED <<streamPc, streamJob, snapshot, sent>>

AnnounceTerminal(j) ==
  /\ PublishTerminal(j)
  /\ Bus!Publish(j, [type |-> jobState[j], state |-> jobState[j], points |-> jobLast[j]])
  /\ UNCHANGED <<streamPc, streamJob, snapshot, sent>>

-----------------------------------------------------------------------------
(* GET /job/{id}/events: job_events and _job_events_stream.                *)

GoStream(s, from, to) ==
  /\ streamPc[s] = from
  /\ streamPc' = [streamPc EXCEPT ![s] = to]

\* The route: 404 unless the job exists.
OpenStream(s, j) ==
  /\ born[j] # 0
  /\ GoStream(s, "idle", IF j \in Present THEN "open" ELSE "closed")
  /\ streamJob' = [streamJob EXCEPT ![s] = j]
  /\ UNCHANGED <<vars, topic, queue, snapshot, sent>>

\* The generator reads the job again; a job deleted in between ends the stream.
ReadSnapshot(s) ==
  LET j == streamJob[s] IN
  /\ GoStream(s, "open", IF j \in Present THEN "read" ELSE "closed")
  /\ snapshot' = [snapshot EXCEPT ![s] =
       IF j \in Present THEN [type |-> "snapshot", state |-> rowState[j], points |-> rowLast[j]]
       ELSE @]
  /\ UNCHANGED <<vars, topic, queue, streamJob, sent>>

SubscribeStream(s) ==
  /\ GoStream(s, "read", "subscribed")
  /\ Bus!Subscribe(s, streamJob[s])
  /\ UNCHANGED <<vars, streamJob, snapshot, sent>>

\* Wrong: the early return on a terminal snapshot forgets to unsubscribe.
SendSnapshot_Leaks(s) ==
  /\ sent' = [sent EXCEPT ![s] = Append(@, snapshot[s])]
  /\ GoStream(s, "subscribed", IF snapshot[s].state \in Terminal THEN "closed" ELSE "streaming")
  /\ UNCHANGED <<vars, topic, queue, streamJob, snapshot>>

\* The snapshot is sent; a terminal one ends the stream.
SendSnapshot(s) ==
  /\ sent' = [sent EXCEPT ![s] = Append(@, snapshot[s])]
  /\ IF snapshot[s].state \in Terminal
     THEN GoStream(s, "subscribed", "closed") /\ Bus!Unsubscribe(s)
     ELSE GoStream(s, "subscribed", "streaming") /\ UNCHANGED <<topic, queue>>
  /\ UNCHANGED <<vars, streamJob, snapshot>>

\* Wrong: the loop goes on after the outcome.
Forward_NoEnd(s) ==
  /\ queue[s] # <<>>
  /\ sent' = [sent EXCEPT ![s] = Append(@, Head(queue[s]))]
  /\ GoStream(s, "streaming", "streaming")
  /\ Bus!Take(s)
  /\ UNCHANGED <<vars, streamJob, snapshot>>

\* One round of the while loop that finds an event; a terminal one ends the stream.
Forward(s) ==
  /\ queue[s] # <<>>
  /\ sent' = [sent EXCEPT ![s] = Append(@, Head(queue[s]))]
  /\ IF Head(queue[s]).state \in Terminal
     THEN GoStream(s, "streaming", "closed") /\ Bus!Unsubscribe(s)
     ELSE GoStream(s, "streaming", "streaming") /\ Bus!Take(s)
  /\ UNCHANGED <<vars, streamJob, snapshot>>

\* subscriber.get timed out: the loop simply tries again.
PollAgain(s) ==
  /\ queue[s] = <<>>
  /\ GoStream(s, "streaming", "streaming")
  /\ UNCHANGED allVars

\* The client goes away; the generator is cancelled and its finally block runs.
Disconnect(s) ==
  /\ GoStream(s, "streaming", "closed")
  /\ Bus!Unsubscribe(s)
  /\ UNCHANGED <<vars, streamJob, snapshot, sent>>

\* A restart also drops every connection.
CrashStreams ==
  /\ Crash
  /\ topic' = [s \in Streams |-> NoJob]
  /\ queue' = [s \in Streams |-> <<>>]
  /\ streamPc' = [s \in Streams |-> IF streamPc[s] = "idle" THEN "idle" ELSE "closed"]
  /\ UNCHANGED <<streamJob, snapshot, sent>>

Serve(s) == ReadSnapshot(s) \/ SubscribeStream(s) \/ SendSnapshot(s) \/ Forward(s)

-----------------------------------------------------------------------------
Silent ==
  /\ \/ \E c \in Clients : Request(c)
     \/ \E j \in Jobs : Worker(j)
     \/ \E s \in Stoppers : StopCall(s)
     \/ Outside
     \/ Quiescent
  /\ UNCHANGED streamVars

Announce ==
  \/ \E c \in Clients : AnnounceStarted(c)
  \/ \E j \in Jobs : \/ AnnounceWaypointStarted(j)
                     \/ AnnounceWaypointCompleted(j)
                     \/ AnnounceTerminal(j)

StreamStep ==
  \/ \E s \in Streams, j \in Jobs : OpenStream(s, j)
  \/ \E s \in Streams : Serve(s) \/ PollAgain(s) \/ Disconnect(s)

StreamsNext == Silent \/ Announce \/ StreamStep \/ CrashStreams

StreamsSpec == StreamsInit /\ [][StreamsNext]_allVars

\* As in JobRunner; the event loop keeps serving every open stream.
StreamsFairness ==
  /\ \A c \in Clients : WF_allVars(Request(c) /\ UNCHANGED streamVars) /\ WF_allVars(AnnounceStarted(c))
  /\ \A j \in Jobs : /\ WF_allVars(Worker(j) /\ UNCHANGED streamVars)
                     /\ WF_allVars(AnnounceWaypointStarted(j))
                     /\ WF_allVars(AnnounceWaypointCompleted(j))
                     /\ WF_allVars(AnnounceTerminal(j))
  /\ \A s \in Stoppers : WF_allVars(StopCall(s) /\ UNCHANGED streamVars)
  /\ \A s \in Streams : WF_allVars(Serve(s))

StreamsFairSpec == StreamsSpec /\ StreamsFairness

-----------------------------------------------------------------------------
(* Properties                                                              *)

StreamsTypeOK ==
  /\ Bus!BusTypeOK
  /\ streamPc \in [Streams -> StreamSteps]
  /\ streamJob \in [Streams -> Jobs \cup {NoJob}]
  /\ snapshot \in [Streams -> Event]
  /\ sent \in [Streams -> Seq(Event)]

\* Progress never goes back on a stream: from the snapshot, which is read from
\* the table, through the queued events of the job thread, the number of points
\* only grows. (job:started is published by another
\* thread and may come late, see AnnounceStarted.)
ProgressNeverGoesBack ==
  \A s \in Streams : LET told == sent[s] \o queue[s] IN
    \A m, n \in 1..Len(told) :
      m < n /\ told[n].type # "started" => told[m].points <= told[n].points

\* A client that was told the outcome finds the same outcome and progress in the
\* table, unless the job was deleted.
OutcomeIsStored ==
  \A s \in Streams : \A n \in 1..Len(sent[s]) :
    LET j == streamJob[s] IN
    sent[s][n].state \in Terminal /\ j \in Present =>
      rowState[j] = sent[s][n].state /\ rowLast[j] = sent[s][n].points

\* A subscriber list holds a queue only while the stream that reads it is open.
ClosedIsUnsubscribed ==
  \A s \in Streams : topic[s] # NoJob <=> streamPc[s] \in {"subscribed", "streaming"}

\* A stream subscribed before its job's thread has published the outcome ends.
LiveStreamEnds ==
  \A s \in Streams, j \in Jobs :
    topic[s] = j /\ Driving(j) ~> streamPc[s] = "closed"

\* The integration diagram ends every stream with the outcome of the job: a
\* stream opened on a job that has ended, or ends later, does not stay open.
StreamEnds ==
  \A s \in Streams, j \in Jobs :
    streamJob[s] = j /\ pc[j] = "done" ~> streamPc[s] = "closed"
=============================================================================
