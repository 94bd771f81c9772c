------------------------------ MODULE JobStore ------------------------------
(***************************************************************************)
(* The jobs database: StorageAdapter (app/adapters/storage.py) on the one  *)
(* sqlite3 connection that Database (app/adapters/database.py) shares      *)
(* between all threads. JobRunner takes each write as one step; here it is *)
(* the statements it is made of, the transaction sqlite3 opens for the     *)
(* first of them, and the commit.                                          *)
(*                                                                         *)
(* Every operation holds the connection's lock from its first statement to *)
(* its commit, except prune_jobs, which takes it for each statement. All   *)
(* threads see what is not committed yet: it is the same connection. An    *)
(* operation that raises neither commits nor rolls back, so the statements *)
(* it completed stay in the open transaction, and the next commit, whoever *)
(* makes it, makes them durable.                                           *)
(*                                                                         *)
(* SQLite is external: a statement or a commit may fail, which undoes the  *)
(* statement or the whole transaction; a crash undoes what is not          *)
(* committed; foreign keys cascade and are enforced.                       *)
(***************************************************************************)
EXTENDS Integers, FiniteSets, Sequences

CONSTANTS
  Clients,      \* requests and job threads
  NoOne,        \* nobody holds the lock
  MaxCreated,   \* bound: jobs created
  PathLen,      \* waypoints of a job
  MaxJobs,      \* NENABOT_MAX_JOBS
  MaxFaults     \* bound: statements that fail and restarts

ASSUME JobStoreAssumption ==
  /\ NoOne \notin Clients
  /\ MaxCreated \in Nat /\ PathLen \in Nat /\ MaxJobs \in Nat \ {0}
  /\ MaxFaults \in Nat

VARIABLES
  visible,   \* visible[j]: the rows of job j as the connection shows them
  durable,   \* durable[j]: the rows as of the last commit
  lock,      \* who holds Database._lock between statements
  todo,      \* todo[c]: the transactions c has still to do, each a list of statements
  target,    \* target[c]: the job they are about, or whose thread c is
  created,   \* jobs created so far; they are numbered in the order of created_at
  \* job threads
  stage,     \* stage[c]: "request", or where c is in the thread of a job
  last,      \* last[j]: last_point_processed of the Job object
  failed,    \* jobs whose Job object says "failed"
  excess,    \* excess[c], ids[c]: locals of prune_jobs
  ids,
  \* history
  acked,     \* acked[j]: the rows of j that completed operations promised
  saved,     \* jobs whose save_job returned
  broken,    \* jobs whose save_job raised
  started,   \* jobs that were run
  deleted,   \* jobs that a user deleted
  stale,     \* TRUE: a row went away between the count and the selection of a prune_jobs
  faults     \* statements that failed, and restarts

db      == <<visible, durable>>
work    == <<lock, todo, target, created>>
thread  == <<stage, last, failed, excess, ids>>
history == <<acked, saved, broken, started, deleted, stale, faults>>
vars    == <<db, work, thread, history>>

Jobs    == 1..MaxCreated
None    == 0

\* The row of a job with its children: waypoints, image, measurements, the column
\* last_point_processed, and whether the column state says "failed".
NoRows  == [row |-> FALSE, path |-> 0, image |-> FALSE, measured |-> 0, progress |-> 0,
            failed |-> FALSE]
NewRow  == [NoRows EXCEPT !.row = TRUE]
Loop    == {"run", "loop"}              \* the thread is to start, or in its for loop
Pruning == {"select", "delete", "commit"}
Stages  == {"request", "except", "final"} \cup Loop \cup Pruning

Init ==
  /\ visible = [j \in Jobs |-> NoRows] /\ durable = visible
  /\ lock = NoOne
  /\ todo = [c \in Clients |-> <<>>] /\ target = [c \in Clients |-> None]
  /\ created = 0
  /\ stage = [c \in Clients |-> "request"]
  /\ last = [j \in Jobs |-> 0] /\ failed = {}
  /\ excess = [c \in Clients |-> 0] /\ ids = [c \in Clients |-> {}]
  /\ acked = visible /\ saved = {} /\ broken = {} /\ started = {} /\ deleted = {}
  /\ stale = FALSE
  /\ faults = 0

-----------------------------------------------------------------------------
(* The statements.                                                         *)

Commit == "commit"

\* Wrong: the pragma foreign_keys is off, which is SQLite's default.
ForeignKeyFails_Off(stmt, rows) == FALSE
\* A child of a job that is not there is refused.
ForeignKeyFails(stmt, rows) ==
  stmt \in {"insert waypoint", "insert image", "insert measurement"} /\ ~rows.row

\* What a statement makes of the rows of job j.
Effect(stmt, j, rows) ==
  CASE stmt = "insert job"         -> NewRow
    [] stmt = "delete waypoints"   -> [rows EXCEPT !.path = 0]
    [] stmt = "insert waypoint"    -> [rows EXCEPT !.path = @ + 1]
    [] stmt = "insert image"       -> [rows EXCEPT !.image = TRUE]
    [] stmt = "insert measurement" -> [rows EXCEPT !.measured = @ + 1]
    [] stmt = "update job"         ->
         IF rows.row THEN [rows EXCEPT !.progress = last[j], !.failed = j \in failed] ELSE rows
    [] stmt = "delete job"         -> NoRows
    [] stmt = Commit               -> rows

\* Wrong: one waypoint too many.
SaveJob_OneMore == <<"insert job", "delete waypoints">> \o
                   [i \in 1..(PathLen + 1) |-> "insert waypoint"] \o <<Commit>>
SaveJob         == <<"insert job", "delete waypoints">> \o
                   [i \in 1..PathLen |-> "insert waypoint"] \o <<Commit>>
SaveImage       == <<"insert image", Commit>>
\* Wrong: nobody commits the measurement.
SaveMeasurement_Open == <<"insert measurement">>
SaveMeasurement == <<"insert measurement", Commit>>
UpdateState     == <<"update job", Commit>>
Delete          == <<"delete job", Commit>>

-----------------------------------------------------------------------------
(* The operations and who calls them.                                      *)

Idle(c) == todo[c] = <<>>
Call(c, transactions) ==
  /\ Idle(c)
  /\ todo' = [todo EXCEPT ![c] = transactions]
Start(c, j, transactions) ==
  /\ stage[c] = "request"
  /\ Call(c, transactions)
  /\ target' = [target EXCEPT ![c] = j]

\* create_job: the Job gets its created_at, is saved, and then its image, if any.
CreateJob(c) ==
  /\ created < MaxCreated /\ created' = created + 1
  /\ \E image \in {<<>>, <<SaveImage>>} : Start(c, created', <<SaveJob>> \o image)
  /\ UNCHANGED <<db, lock, thread, history>>

\* run_job: the state of the job is stored, then its thread starts.
RunJob(c) ==
  /\ \E j \in saved \ started :
       /\ Start(c, j, <<UpdateState>>)
       /\ started' = started \cup {j}
  /\ stage' = [stage EXCEPT ![c] = "run"]
  /\ UNCHANGED <<db, lock, created, last, failed, excess, ids, acked, saved, broken, deleted,
                 stale, faults>>

\* Wrong: the progress is stored before the measurement.
RecordWaypoint_ProgressFirst(c) ==
  LET j == target[c] IN
    /\ stage[c] \in Loop /\ last[j] < PathLen
    /\ stage' = [stage EXCEPT ![c] = "loop"]
    /\ last' = [last EXCEPT ![j] = @ + 1]
    /\ Call(c, <<UpdateState, SaveMeasurement>>)
    /\ UNCHANGED <<db, lock, target, created, failed, excess, ids, history>>

\* The end of the loop body: the waypoint is counted in the Job object before its
\* measurement is inserted.
RecordWaypoint(c) ==
  LET j == target[c] IN
    /\ stage[c] \in Loop /\ last[j] < PathLen
    /\ stage' = [stage EXCEPT ![c] = "loop"]
    /\ last' = [last EXCEPT ![j] = @ + 1]
    /\ Call(c, <<SaveMeasurement, UpdateState>>)
    /\ UNCHANGED <<db, lock, target, created, failed, excess, ids, history>>

\* The finally block stores the outcome: after the last waypoint, a stop or an
\* exception of the robot, or after one of the storage.
StoreOutcome(c) ==
  /\ stage[c] \in Loop \cup {"except"}
  /\ Call(c, <<UpdateState>>)
  /\ stage' = [stage EXCEPT ![c] = "final"]
  /\ failed' \in {failed, failed \cup {target[c]}}
  /\ UNCHANGED <<db, lock, target, created, last, excess, ids, history>>

DeleteJob(c) ==
  /\ \E j \in saved : Start(c, j, <<Delete>>)
  /\ UNCHANGED <<db, lock, created, thread, history>>

\* Wrong: the operations take the lock for each statement only.
MayRun_Unlocked(c) == ~Idle(c)
\* with self._db.locked(): from the first statement of a transaction to its last.
MayRun(c) == ~Idle(c) /\ lock \in {NoOne, c}

Stmt(c) == Head(Head(todo[c]))

\* What is left to do when the statement is done: of the transaction, or after it.
Rest(c) ==
  IF Len(Head(todo[c])) > 1
  THEN <<Tail(Head(todo[c]))>> \o Tail(todo[c])
  ELSE Tail(todo[c])
EndsOperation(c) == Len(Head(todo[c])) = 1

\* A request forgets its job when it ends; a thread does not.
Finish(c, rest) ==
  /\ todo' = [todo EXCEPT ![c] = rest]
  /\ target' = [target EXCEPT ![c] = IF rest = <<>> /\ stage[c] = "request" THEN None ELSE @]

Stored  == {j \in Jobs : visible[j].row}
\* Between its count and its selection a prune_jobs takes for granted that no row goes.
NoteLoss ==
  stale' = (stale \/ ((\E c \in Clients : stage[c] = "select") /\ ~(Stored \subseteq Stored')))

\* A statement succeeds. The last one of an operation lets it return. A deletion
\* takes back what was promised of the job.
Execute(c) ==
  /\ MayRun(c) /\ ~ForeignKeyFails(Stmt(c), visible[target[c]])
  /\ LET j == target[c] IN
       /\ visible' = [visible EXCEPT ![j] = Effect(Stmt(c), j, @)]
       /\ durable' = IF Stmt(c) = Commit THEN visible ELSE durable
       /\ acked' = [acked EXCEPT ![j] =
            IF Stmt(c) = "delete job" THEN NoRows
            ELSE IF EndsOperation(c) THEN visible'[j] ELSE @]
       /\ saved' = IF EndsOperation(c) THEN saved \cup {j} ELSE saved
       /\ deleted' = IF Stmt(c) = "delete job" THEN deleted \cup {j} ELSE deleted
  /\ NoteLoss
  /\ lock' = IF EndsOperation(c) THEN NoOne ELSE c
  /\ Finish(c, Rest(c))
  /\ UNCHANGED <<created, thread, broken, started, faults>>

\* Where an exception takes c: a request ends, a loop is left by its except clause,
\* and the finally block is the end of its thread.
AfterException(c) == IF stage[c] = "loop" THEN "except" ELSE "request"

\* Wrong: the except clause is left without the state of the Job object.
Raise_Unmarked(c) ==
  /\ lock' = NoOne
  /\ stage' = [stage EXCEPT ![c] = AfterException(c)]
  /\ todo' = [todo EXCEPT ![c] = <<>>]
  /\ target' = [target EXCEPT ![c] = IF stage'[c] = "request" THEN None ELSE @]
  /\ broken' = IF target[c] \in saved THEN broken ELSE broken \cup {target[c]}
  /\ UNCHANGED <<durable, created, last, failed, excess, ids, acked, saved, started, deleted>>

\* An exception leaves the operation. Nothing is rolled back, unless SQLite itself
\* gives the transaction up.
Raise(c) ==
  /\ lock' = NoOne
  /\ stage' = [stage EXCEPT ![c] = AfterException(c)]
  /\ failed' = IF stage[c] = "loop" THEN failed \cup {target[c]} ELSE failed
  /\ todo' = [todo EXCEPT ![c] = <<>>]
  /\ target' = [target EXCEPT ![c] = IF stage'[c] = "request" THEN None ELSE @]
  /\ broken' = IF target[c] \in saved THEN broken ELSE broken \cup {target[c]}
  /\ UNCHANGED <<durable, created, last, excess, ids, acked, saved, started, deleted>>

RefuseOrphan(c) ==
  /\ MayRun(c) /\ ForeignKeyFails(Stmt(c), visible[target[c]])
  /\ Raise(c)
  /\ UNCHANGED <<visible, stale, faults>>

FailStatement(c) ==
  /\ MayRun(c)
  /\ faults < MaxFaults /\ faults' = faults + 1
  /\ Raise(c)
  /\ visible' \in {visible, durable}
  /\ NoteLoss

-----------------------------------------------------------------------------
(* Retention: the thread of each job that ends, after it has stored the      *)
(* outcome. By then the next job may run and end, so that several overlap.   *)

Oldest(n)     == {j \in Stored : Cardinality({k \in Stored : k < j}) < n}
LockFree      == lock = NoOne

\* prune_jobs goes on, or returns and its thread ends.
GoPrune(c, to) ==
  /\ stage' = [stage EXCEPT ![c] = to]
  /\ target' = [target EXCEPT ![c] = IF to = "request" THEN None ELSE @]

PruneCount(c) ==
  /\ stage[c] = "final" /\ Idle(c) /\ LockFree
  /\ IF Cardinality(Stored) <= MaxJobs
     THEN GoPrune(c, "request") /\ UNCHANGED excess
     ELSE GoPrune(c, "select") /\ excess' = [excess EXCEPT ![c] = Cardinality(Stored) - MaxJobs]
  /\ UNCHANGED <<db, lock, todo, created, last, failed, ids, history>>

\* Wrong: keeps the oldest.
PruneSelect_Newest(c) ==
  /\ stage[c] = "select" /\ LockFree
  /\ ids' = [ids EXCEPT ![c] =
       {j \in Stored : Cardinality({k \in Stored : k > j}) < excess[c]}]
  /\ GoPrune(c, "delete")
  /\ excess' = [excess EXCEPT ![c] = 0]
  /\ UNCHANGED <<db, lock, todo, created, last, failed, history>>

PruneSelect(c) ==
  /\ stage[c] = "select" /\ LockFree
  /\ ids' = [ids EXCEPT ![c] = Oldest(excess[c])]
  /\ GoPrune(c, IF Oldest(excess[c]) = {} THEN "request" ELSE "delete")
  /\ excess' = [excess EXCEPT ![c] = 0]
  /\ UNCHANGED <<db, lock, todo, created, last, failed, history>>

PruneDelete(c) ==
  /\ stage[c] = "delete" /\ LockFree
  /\ visible' = [j \in Jobs |-> IF j \in ids[c] THEN NoRows ELSE visible[j]]
  /\ acked'   = [j \in Jobs |-> IF j \in ids[c] THEN NoRows ELSE acked[j]]
  /\ GoPrune(c, "commit")
  /\ ids' = [ids EXCEPT ![c] = {}]
  /\ NoteLoss
  /\ UNCHANGED <<durable, lock, todo, created, last, failed, excess, saved, broken, started,
                 deleted, faults>>

PruneCommit(c) ==
  /\ stage[c] = "commit" /\ LockFree
  /\ durable' = visible
  /\ GoPrune(c, "request")
  /\ UNCHANGED <<visible, lock, todo, created, last, failed, excess, ids, history>>

PruneFails(c) ==
  /\ stage[c] \in Pruning /\ LockFree
  /\ faults < MaxFaults /\ faults' = faults + 1
  /\ visible' \in {visible, durable}
  /\ GoPrune(c, "request")
  /\ excess' = [excess EXCEPT ![c] = 0] /\ ids' = [ids EXCEPT ![c] = {}]
  /\ NoteLoss
  /\ UNCHANGED <<durable, lock, todo, created, last, failed, acked, saved, broken, started,
                 deleted>>

-----------------------------------------------------------------------------
(* The crash, and the whole.                                                 *)

\* The process dies; connect() opens the database again as of the last commit.
Crash ==
  /\ faults < MaxFaults /\ faults' = faults + 1
  /\ visible' = durable
  /\ lock' = NoOne
  /\ todo' = [c \in Clients |-> <<>>] /\ target' = [c \in Clients |-> None]
  /\ stage' = [c \in Clients |-> "request"]
  /\ excess' = [c \in Clients |-> 0] /\ ids' = [c \in Clients |-> {}]
  /\ UNCHANGED <<durable, created, last, failed, acked, saved, broken, started, deleted, stale>>

Client(c) ==
  \/ CreateJob(c) \/ RunJob(c) \/ RecordWaypoint(c) \/ StoreOutcome(c) \/ DeleteJob(c)
  \/ Execute(c) \/ RefuseOrphan(c) \/ FailStatement(c)

Prune(c) ==
  \/ PruneCount(c) \/ PruneSelect(c) \/ PruneDelete(c) \/ PruneCommit(c) \/ PruneFails(c)

Next == (\E c \in Clients : Client(c) \/ Prune(c)) \/ Crash

Spec == Init /\ [][Next]_vars

-----------------------------------------------------------------------------
(* Properties.                                                             *)

Rows == [row : BOOLEAN, path : 0..PathLen, image : BOOLEAN,
         measured : 0..PathLen, progress : 0..PathLen, failed : BOOLEAN]

TypeOK ==
  /\ visible \in [Jobs -> Rows] /\ durable \in [Jobs -> Rows] /\ acked \in [Jobs -> Rows]
  /\ lock \in Clients \cup {NoOne}
  /\ target \in [Clients -> 0..created] /\ created \in 0..MaxCreated
  /\ stage \in [Clients -> Stages]
  /\ \A c \in Clients : target[c] = None <=> Idle(c) /\ stage[c] = "request"
  /\ last \in [Jobs -> 0..PathLen] /\ failed \subseteq Jobs
  /\ excess \in [Clients -> Nat] /\ ids \in [Clients -> SUBSET Jobs]
  /\ saved \subseteq Jobs /\ broken \subseteq Jobs
  /\ started \subseteq saved /\ deleted \subseteq saved
  /\ stale \in BOOLEAN
  /\ faults \in 0..MaxFaults

\* "Insert or replace a full job (with waypoints)": whoever reads between operations,
\* and whoever restarts the process at any moment, finds a job with all its waypoints
\* or not at all, unless its save_job raised: prune_jobs, which gives the lock
\* back between its statements, never publishes half of another operation.
Whole(rows)  == rows.row => rows.path = PathLen
JobsAreWhole == \A j \in Jobs \ broken :
  /\ Whole(durable[j])
  /\ LockFree => Whole(visible[j])

\* What an operation that returned has stored survives any crash and any failure of
\* another operation on the shared connection, until the job is deleted.
Keeps(rows, promised) ==
  promised.row => /\ rows.row /\ rows.path >= promised.path
                  /\ promised.image => rows.image
                  /\ rows.measured >= promised.measured /\ rows.progress >= promised.progress
ReturnedIsDurable == \A j \in Jobs : Keeps(durable[j], acked[j])

\* Waypoints, images and measurements never outlive their job, nor come without it,
\* although threads go on writing about jobs that others delete.
NoOrphans == \A j \in Jobs : \A rows \in {visible[j], durable[j]} : ~rows.row => rows = NoRows

\* Retention keeps every saved job that fewer than MaxJobs jobs are younger than and
\* that no user deleted, unless rows went away between the count and the selection
\* of a prune_jobs: creations in between, failing statements, transactions left open
\* and crashes cost no job its place.
Young(j) == created - j < MaxJobs
KeepsTheYoung == \A j \in saved \ deleted : Young(j) => visible[j].row /\ durable[j].row
RetentionKeepsNewest == ~stale => KeepsTheYoung

\* The progress a restart finds never counts a measurement it does not find, except
\* that of a failed job, which may count the waypoint at which it failed.
ProgressIsBacked == \A j \in Jobs :
  durable[j].progress <= durable[j].measured + (IF durable[j].failed THEN 1 ELSE 0)
=============================================================================
