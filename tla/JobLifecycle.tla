---------------------------- MODULE JobLifecycle ----------------------------
(***************************************************************************)
(* What a reader of the job table may rely on, whatever the service does   *)
(* inside: the life of a job as GET /job/{id} shows it.                    *)
(*                                                                         *)
(* A job appears once, as created; it may be started, makes progress one   *)
(* waypoint at a time, and ends in one outcome that never changes again.   *)
(* It is completed only when every waypoint was measured. It may be        *)
(* deleted at any moment, and never comes back, except that a deletion not *)
(* committed yet, as retention's is for a moment, shows to every reader    *)
(* but may be undone by a restart or a rollback. Whatever commits the job  *)
(* table next makes it final.                                              *)
(***************************************************************************)
EXTENDS Integers

CONSTANTS Jobs, PathLen

VARIABLES
  phase,   \* "new", one of the job states, or "deleted"
  points,  \* last_point_processed
  pruned   \* jobs deleted since the last commit

vars == <<phase, points, pruned>>

Outcomes == {"completed", "failed", "stopped"}
Listed   == {"created", "running"} \cup Outcomes

\* What GET /job/{id} shows.
Shown(j) == IF j \in pruned THEN "deleted" ELSE phase[j]

Init ==
  /\ phase = [j \in Jobs |-> "new"]
  /\ points = [j \in Jobs |-> 0]
  /\ pruned = {}

\* A change of the table and its commit.
Commit(phases, counts) ==
  /\ phase' = [j \in Jobs |-> IF j \in pruned THEN "deleted" ELSE phases[j]]
  /\ points' = [j \in Jobs |-> IF j \in pruned THEN 0 ELSE counts[j]]
  /\ pruned' = {}

Create(j) ==
  /\ Shown(j) = "new"
  /\ Commit([phase EXCEPT ![j] = "created"], points)

Start(j) ==
  /\ Shown(j) = "created"
  /\ Commit([phase EXCEPT ![j] = "running"], points)

Advance(j) ==
  /\ Shown(j) = "running"
  /\ points[j] < PathLen
  /\ Commit(phase, [points EXCEPT ![j] = @ + 1])

\* The outcome and the last progress may be stored together: a waypoint whose
\* own record failed is counted by the final one.
Finish(j, outcome) ==
  /\ Shown(j) = "running"
  /\ \E n \in {points[j], points[j] + 1} :
       /\ n <= PathLen
       /\ outcome = "completed" => n = PathLen
       /\ outcome = "stopped" => n < PathLen
       /\ Commit([phase EXCEPT ![j] = outcome], [points EXCEPT ![j] = n])

\* S is empty when something else is committed, or nothing.
Delete(S) ==
  /\ \A j \in S : Shown(j) \in Listed
  /\ Commit([j \in Jobs |-> IF j \in S THEN "deleted" ELSE phase[j]],
            [j \in Jobs |-> IF j \in S THEN 0 ELSE points[j]])

Prune(S) ==
  /\ \A j \in S : Shown(j) \in Listed
  /\ pruned' = pruned \cup S
  /\ UNCHANGED <<phase, points>>

\* A restart, or a rollback.
Restore ==
  /\ pruned' = {}
  /\ UNCHANGED <<phase, points>>

Next ==
  \/ \E j \in Jobs : Create(j) \/ Start(j) \/ Advance(j)
  \/ \E j \in Jobs, outcome \in Outcomes : Finish(j, outcome)
  \/ \E S \in SUBSET Jobs : Delete(S) \/ Prune(S)
  \/ Restore

Spec == Init /\ [][Next]_vars
=============================================================================
