------------------------------ MODULE EventBus ------------------------------
(***************************************************************************)
(* The subscriber lists of app/services/orchestrator.py: subscribe,        *)
(* unsubscribe and _publish_event, each under _subscribers_lock and so one *)
(* step. A subscriber is the unbounded queue.Queue of one event stream.    *)
(***************************************************************************)
EXTENDS Sequences

CONSTANTS
  Jobs,     \* job identifiers
  Streams,  \* connections to GET /job/{id}/events, at most one queue each
  NoJob,
  Event     \* the events that may be published

VARIABLES
  topic,    \* the job whose list holds the queue of a stream, or NoJob
  queue     \* the events waiting in that queue

busVars == <<topic, queue>>

BusInit ==
  /\ topic = [s \in Streams |-> NoJob]
  /\ queue = [s \in Streams |-> <<>>]

BusTypeOK ==
  /\ topic \in [Streams -> Jobs \cup {NoJob}]
  /\ queue \in [Streams -> Seq(Event)]

Subscribe(s, j) ==
  /\ topic' = [topic EXCEPT ![s] = j]
  /\ queue' = [queue EXCEPT ![s] = <<>>]

\* The queue object goes away with the stream that owned it.
Unsubscribe(s) ==
  /\ topic' = [topic EXCEPT ![s] = NoJob]
  /\ queue' = [queue EXCEPT ![s] = <<>>]

\* Wrong (no specification uses it): the newest event is delivered first.
Publish_Newest(j, event) ==
  /\ queue' = [s \in Streams |-> IF topic[s] = j THEN <<event>> \o queue[s] ELSE queue[s]]
  /\ UNCHANGED topic

Publish(j, event) ==
  /\ queue' = [s \in Streams |-> IF topic[s] = j THEN Append(queue[s], event) ELSE queue[s]]
  /\ UNCHANGED topic

Take(s) ==
  /\ queue[s] # <<>>
  /\ queue' = [queue EXCEPT ![s] = Tail(@)]
  /\ UNCHANGED topic
=============================================================================
