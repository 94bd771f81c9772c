--------------------------- MODULE JobStore_proofs ---------------------------
(***************************************************************************)
(* The shared connection for any number of clients, jobs, waypoints,       *)
(* failures and crashes.                                                   *)
(*                                                                         *)
(* What a returned operation stored is durable and no row outlives its     *)
(* job: neither needs the lock, both rest on every operation ending in a   *)
(* commit, on a job being saved before anybody else writes about it, and   *)
(* on foreign keys. That jobs are whole, that progress is backed by        *)
(* measurements and what retention keeps do need it: they follow from      *)
(* where each client is in its transaction (ControlInv), progress and      *)
(* retention also from where each job thread is (stage).                   *)
(***************************************************************************)
EXTENDS JobStore, FiniteSetTheorems, TLAPS

Statements == {"insert job", "delete waypoints", "insert waypoint", "insert image",
               "insert measurement", "update job", "delete job", Commit}

\* The transactions, and those that do not create a job.
Transactions == {t \in Seq(Statements) : t # <<>> /\ t[Len(t)] = Commit}
Later == {t \in Transactions :
            \A k \in 1..Len(t) : t[k] \notin {"insert job", "delete waypoints"}}

RowSet == [row : BOOLEAN, path : Nat, image : BOOLEAN, measured : Nat, progress : Nat,
           failed : BOOLEAN]

Types ==
  /\ visible \in [Jobs -> RowSet] /\ durable \in [Jobs -> RowSet] /\ acked \in [Jobs -> RowSet]
  /\ created \in 0..MaxCreated
  /\ target \in [Clients -> 0..created]
  /\ saved \subseteq 1..created
  /\ todo \in [Clients -> Seq(Transactions)]
  /\ stage \in [Clients -> Stages]
  /\ last \in [Jobs -> 0..PathLen] /\ failed \subseteq Jobs
  /\ started \subseteq saved

Creating(c) == ~Idle(c) /\ Head(todo[c]) \notin Later

\* Only the first transaction of a client creates a job, whoever has one under way knows
\* its job, and so does a job thread, which prunes when its other work is done. The Job
\* object of a job that was not run yet is as new.
Work ==
  /\ \A c \in Clients : ~Idle(c) => target[c] # None /\ Tail(todo[c]) \in Seq(Later)
  /\ \A c \in Clients : stage[c] # "request" => target[c] \in started
  /\ \A c \in Clients : stage[c] \in Pruning => Idle(c)
  /\ \A j \in Jobs \ started : last[j] = 0 /\ j \notin failed
  /\ \A j \in Jobs : acked[j].row => j \in 1..created

\* A job that is being created has promised nothing and nobody else writes about it.
Fresh ==
  \A c \in Clients : Creating(c) =>
    /\ target[c] \notin saved /\ ~acked[target[c]].row
    /\ \A d \in Clients \ {c} : target[d] # target[c]

\* Rows keep what was promised, and no column is ahead of the Job object it is stored from.
Safe == \A j \in Jobs :
  /\ Keeps(visible[j], acked[j]) /\ Keeps(durable[j], acked[j])
  /\ visible[j].progress <= last[j] /\ durable[j].progress <= last[j]

-----------------------------------------------------------------------------
(* Transactions.                                                           *)

LEMMA PairIsSequence ==
  ASSUME NEW S, NEW a \in S, NEW b \in S
  PROVE  <<a, b>> \in Seq(S) /\ Len(<<a, b>>) = 2 /\ <<a, b>> # <<>>
OBVIOUS

LEMMA EndOfAppended ==
  ASSUME NEW S, NEW s \in Seq(S), NEW a \in S
  PROVE  LET t == s \o <<a>> IN t \in Seq(S) /\ t # <<>> /\ t[Len(t)] = a
OBVIOUS

LEMMA TailShifts ==
  ASSUME NEW S, NEW t \in Seq(S), Len(t) > 1
  PROVE  /\ Tail(t) \in Seq(S) /\ Len(Tail(t)) = Len(t) - 1 /\ Tail(t) # <<>>
         /\ Tail(t)[Len(Tail(t))] = t[Len(t)]
         /\ \A k \in 1..Len(Tail(t)) : Tail(t)[k] = t[k + 1] /\ k + 1 \in 1..Len(t)
<1>1. Tail(t) \in Seq(S) /\ Len(Tail(t)) = Len(t) - 1
  OBVIOUS
<1>2. Len(Tail(t)) # 0
  BY <1>1
<1>3. Tail(t) # <<>>
  <2>1. Len(<<>>) = 0
    OBVIOUS
  <2> QED
    BY <1>2, <2>1, Zenon
<1> QED
  BY <1>1, <1>3

LEMMA Prefixed ==
  ASSUME NEW S, NEW a \in S, NEW s \in Seq(S)
  PROVE  LET t == <<a>> \o s IN t \in Seq(S) /\ t # <<>> /\ Head(t) = a /\ Tail(t) = s
<1> DEFINE t == <<a>> \o s
<1>1. t \in Seq(S) /\ Len(t) = Len(s) + 1 /\ Head(t) = a
  OBVIOUS
<1>2. \A k \in 1..Len(s) : t[k + 1] = s[k]
  OBVIOUS
<1>3. Tail(t) \in Seq(S) /\ Len(Tail(t)) = Len(s)
  BY <1>1
<1>4. \A k \in 1..Len(s) : Tail(t)[k] = s[k]
  BY <1>1, <1>2, <1>3
<1>5. Tail(t) = s
  BY <1>3, <1>4
<1>6. Len(t) # 0
  BY <1>1
<1>7. t # <<>>
  <2>1. Len(<<>>) = 0
    OBVIOUS
  <2> QED
    BY <1>6, <2>1, Zenon
<1> QED
  BY <1>1, <1>5, <1>7

LEMMA TwoIndices == \A k \in 1..2 : k = 1 \/ k = 2
OBVIOUS

LEMMA Programs ==
  /\ SaveJob \in Transactions
  /\ {SaveImage, SaveMeasurement, UpdateState, Delete} \subseteq Later
<1>1. SaveJob \in Transactions
  <2> DEFINE first == <<"insert job", "delete waypoints">>
             rows  == [i \in 1..PathLen |-> "insert waypoint"]
  <2>1. first \in Seq(Statements) /\ <<Commit>> \in Seq(Statements)
    BY DEF Statements
  <2>2. rows \in Seq(Statements)
    BY JobStoreAssumption DEF Statements
  <2>3. SaveJob = (first \o rows) \o <<Commit>>
    BY DEF SaveJob
  <2> HIDE DEF first, rows
  <2>4. first \o rows \in Seq(Statements)
    BY <2>1, <2>2
  <2> DEFINE both == first \o rows
  <2> HIDE DEF both
  <2>5. SaveJob = both \o <<Commit>> /\ both \in Seq(Statements) /\ Commit \in Statements
    BY <2>3, <2>4 DEF both, Statements
  <2>6. /\ SaveJob \in Seq(Statements) /\ SaveJob # <<>>
        /\ SaveJob[Len(SaveJob)] = Commit
    BY <2>5, EndOfAppended
  <2> QED
    BY <2>6 DEF Transactions
<1>2. ASSUME NEW s \in Statements \ {"insert job", "delete waypoints"}
      PROVE  <<s, Commit>> \in Later
  <2>1. s \in Statements /\ Commit \in Statements /\ Commit \notin {"insert job", "delete waypoints"}
    BY DEF Statements, Commit
  <2>2. /\ <<s, Commit>> \in Seq(Statements) /\ Len(<<s, Commit>>) = 2
        /\ <<s, Commit>> # <<>>
    BY <2>1, PairIsSequence
  <2>3. <<s, Commit>>[1] = s /\ <<s, Commit>>[2] = Commit
    OBVIOUS
  <2>4. <<s, Commit>> \in Transactions
    BY <2>2, <2>3 DEF Transactions
  <2> QED
    <3>1. \A k \in 1..Len(<<s, Commit>>) :
            <<s, Commit>>[k] \notin {"insert job", "delete waypoints"}
      BY <2>1, <2>2, <2>3, TwoIndices
    <3> QED
      BY <2>4, <3>1 DEF Later
<1> QED
  BY <1>1, <1>2 DEF SaveImage, SaveMeasurement, UpdateState, Delete, Statements

LEMMA TailOfTransaction ==
  ASSUME NEW t \in Transactions, Len(t) > 1
  PROVE  /\ Tail(t) \in Transactions
         /\ t \in Later => Tail(t) \in Later
<1>1. t \in Seq(Statements) /\ t[Len(t)] = Commit
  BY DEF Transactions
<1>2. /\ Tail(t) \in Seq(Statements) /\ Len(Tail(t)) = Len(t) - 1 /\ Tail(t) # <<>>
      /\ Tail(t)[Len(Tail(t))] = t[Len(t)]
      /\ \A k \in 1..Len(Tail(t)) : Tail(t)[k] = t[k + 1]
  BY <1>1, TailShifts
<1>3. Tail(t) \in Transactions
  BY <1>1, <1>2 DEF Transactions
<1>4. ASSUME t \in Later
      PROVE  Tail(t) \in Later
  <2>1. \A k \in 1..Len(t) : t[k] \notin {"insert job", "delete waypoints"}
    BY <1>4 DEF Later
  <2>2. \A k \in 1..Len(Tail(t)) : k + 1 \in 1..Len(t)
    BY <1>1, TailShifts
  <2>3. \A k \in 1..Len(Tail(t)) : Tail(t)[k] \notin {"insert job", "delete waypoints"}
    BY <1>2, <2>1, <2>2
  <2> QED
    BY <1>3, <2>3 DEF Later
<1> QED
  BY <1>3, <1>4

LEMMA FirstOfTransaction ==
  ASSUME NEW t \in Transactions
  PROVE  /\ t[1] \in Statements
         /\ Len(t) = 1 => t[1] = Commit
         /\ t[1] \in {"insert job", "delete waypoints"} => t \notin Later
<1>1. t \in Seq(Statements) /\ t # <<>> /\ t[Len(t)] = Commit
  BY DEF Transactions
<1>2. Len(t) \in Nat /\ Len(t) # 0
  BY <1>1
<1>3. 1 \in 1..Len(t)
  BY <1>2
<1>4. t[1] \in {"insert job", "delete waypoints"} => t \notin Later
  BY <1>3 DEF Later
<1>5. t[1] \in Statements
  BY <1>1, <1>3
<1> QED
  BY <1>1, <1>4, <1>5

\* What follows a statement in a client's list of transactions.
LEMMA AfterStatement ==
  ASSUME NEW list \in Seq(Transactions), list # <<>>, Tail(list) \in Seq(Later),
         NEW rest,
         rest = IF Len(Head(list)) > 1 THEN <<Tail(Head(list))>> \o Tail(list) ELSE Tail(list)
  PROVE  /\ Head(list) \in Transactions
         /\ rest \in Seq(Transactions)
         /\ rest # <<>> => Tail(rest) \in Seq(Later)
         /\ rest # <<>> /\ Head(rest) \notin Later =>
              Len(Head(list)) > 1 /\ Head(list) \notin Later
<1>1. Head(list) \in Transactions
  OBVIOUS
<1>2. Tail(list) \in Seq(Transactions)
  OBVIOUS
<1>3. CASE Len(Head(list)) > 1
  <2>1. PICK t \in Transactions : t = Tail(Head(list)) /\ (Head(list) \in Later => t \in Later)
    BY <1>1, <1>3, TailOfTransaction
  <2>2. rest = <<t>> \o Tail(list)
    BY <1>3, <2>1
  <2>3. rest \in Seq(Transactions) /\ Head(rest) = t /\ Tail(rest) = Tail(list)
    BY <1>2, <2>1, <2>2, Prefixed
  <2> QED
    BY <1>1, <1>3, <2>1, <2>3
<1>4. CASE ~(Len(Head(list)) > 1)
  <2>1. rest = Tail(list)
    BY <1>4
  <2>2. rest # <<>> => Head(rest) \in Later /\ Tail(rest) \in Seq(Later)
    BY <2>1
  <2> QED
    BY <1>1, <1>2, <2>1, <2>2
<1> QED
  BY <1>3, <1>4

\* The list keeps its form, an operation ends in its commit, and only a client that
\* is creating a job executes the statements that reset its rows.
LEMMA RestIsWork ==
  ASSUME Types, Work, NEW c \in Clients, ~Idle(c)
  PROVE  /\ Rest(c) \in Seq(Transactions)
         /\ Rest(c) # <<>> => Tail(Rest(c)) \in Seq(Later)
         /\ Rest(c) # <<>> /\ Head(Rest(c)) \notin Later => ~EndsOperation(c) /\ Creating(c)
         /\ Stmt(c) \in Statements
         /\ EndsOperation(c) => Stmt(c) = Commit
         /\ Stmt(c) \in {"insert job", "delete waypoints"} => Creating(c)
<1>1. todo[c] \in Seq(Transactions) /\ todo[c] # <<>> /\ Tail(todo[c]) \in Seq(Later)
  BY DEF Types, Work, Idle
<1>2. Rest(c) = IF Len(Head(todo[c])) > 1
                THEN <<Tail(Head(todo[c]))>> \o Tail(todo[c]) ELSE Tail(todo[c])
  BY DEF Rest
<1>3. /\ Head(todo[c]) \in Transactions
      /\ Rest(c) \in Seq(Transactions)
      /\ Rest(c) # <<>> => Tail(Rest(c)) \in Seq(Later)
      /\ Rest(c) # <<>> /\ Head(Rest(c)) \notin Later =>
           Len(Head(todo[c])) > 1 /\ Head(todo[c]) \notin Later
  BY <1>1, <1>2, AfterStatement
<1>4. PICK t \in Transactions : t = Head(todo[c])
  BY <1>3
<1>5. /\ t[1] \in Statements
      /\ Len(t) = 1 => t[1] = Commit
      /\ t[1] \in {"insert job", "delete waypoints"} => t \notin Later
  BY FirstOfTransaction
<1>6. Stmt(c) = t[1] /\ (EndsOperation(c) <=> Len(t) = 1) /\ (Creating(c) <=> t \notin Later)
  BY <1>4 DEF Stmt, EndsOperation, Creating
<1>7. Len(t) > 1 => Len(t) # 1
  BY DEF Transactions
<1> QED
  BY <1>3, <1>4, <1>5, <1>6, <1>7

-----------------------------------------------------------------------------
(* Rows.                                                                   *)

LEMMA RowsGrow ==
  ASSUME NEW rows \in RowSet, NEW new, NEW p \in Nat, rows.progress <= p, NEW f \in BOOLEAN,
         \/ new = [rows EXCEPT !.path = @ + 1]
         \/ new = [rows EXCEPT !.image = TRUE]
         \/ new = [rows EXCEPT !.measured = @ + 1]
         \/ new = [rows EXCEPT !.progress = p, !.failed = f]
         \/ new = rows
  PROVE  /\ new \in RowSet /\ new.progress <= p
         /\ rows.row => new.row
         /\ \A promised \in RowSet : Keeps(rows, promised) => Keeps(new, promised)
<1>1. CASE new = [rows EXCEPT !.path = @ + 1]
  BY <1>1 DEF RowSet, Keeps
<1>2. CASE new = [rows EXCEPT !.image = TRUE]
  BY <1>2 DEF RowSet, Keeps
<1>3. CASE new = [rows EXCEPT !.measured = @ + 1]
  BY <1>3 DEF RowSet, Keeps
<1>4. CASE new = [rows EXCEPT !.progress = p, !.failed = f]
  <2>1. /\ new \in RowSet /\ new.row = rows.row /\ new.path = rows.path /\ new.image = rows.image
        /\ new.measured = rows.measured /\ new.progress = p
    BY <1>4 DEF RowSet
  <2>2. rows.progress \in Nat
    BY DEF RowSet
  <2>3. ASSUME NEW promised \in RowSet, Keeps(rows, promised)
        PROVE  Keeps(new, promised)
    <3>1. promised.progress \in Nat
      BY DEF RowSet
    <3>2. rows.progress >= promised.progress => new.progress >= promised.progress
      BY <2>1, <2>2, <3>1
    <3> QED
      BY <2>1, <2>3, <3>2 DEF Keeps
  <2>4. new.progress <= p
    BY <2>1
  <2> QED
    BY <2>1, <2>3, <2>4
<1>5. CASE new = rows
  BY <1>5
<1> QED
  BY <1>1, <1>2, <1>3, <1>4, <1>5

\* What a statement may do to the rows of its job.
LEMMA EffectOnRows ==
  ASSUME NEW stmt \in Statements, NEW j \in Jobs, NEW rows \in RowSet,
         last[j] \in Nat, rows.progress <= last[j], NEW new, new = Effect(stmt, j, rows)
  PROVE  /\ new \in RowSet /\ new.progress <= last[j]
         /\ ~ForeignKeyFails(stmt, rows) /\ (~rows.row => rows = NoRows) =>
              (~new.row => new = NoRows)
         /\ stmt \notin {"insert job", "delete waypoints", "delete job"} =>
              \A promised \in RowSet : Keeps(rows, promised) => Keeps(new, promised)
         /\ stmt = Commit => new = rows
<1>1. CASE stmt = "insert job"
  <2>1. new = NewRow
    BY <1>1 DEF Effect, Commit
  <2>2. NewRow \in RowSet /\ NewRow.row /\ NewRow.progress = 0
    BY DEF NewRow, NoRows, RowSet
  <2>3. new.progress <= last[j]
    BY <2>1, <2>2
  <2> QED
    BY <1>1, <2>1, <2>2, <2>3 DEF Commit
<1>2. CASE stmt = "delete waypoints"
  <2>1. new = [rows EXCEPT !.path = 0]
    BY <1>2 DEF Effect, Commit
  <2>2. new \in RowSet /\ new.progress = rows.progress
    BY <2>1 DEF RowSet
  <2>3. rows.row => new.row
    BY <2>1 DEF RowSet
  <2>4. rows = NoRows => new = NoRows
    BY <2>1 DEF NoRows
  <2> QED
    BY <1>2, <2>2, <2>3, <2>4 DEF Commit
<1>3. CASE stmt \in {"insert waypoint", "insert image", "insert measurement"}
  <2>1. \/ new = [rows EXCEPT !.path = @ + 1]
        \/ new = [rows EXCEPT !.image = TRUE]
        \/ new = [rows EXCEPT !.measured = @ + 1]
    BY <1>3 DEF Effect, Commit
  <2>2. /\ new \in RowSet /\ (rows.row => new.row) /\ new.progress <= last[j]
        /\ \A promised \in RowSet : Keeps(rows, promised) => Keeps(new, promised)
    <3>1. TRUE \in BOOLEAN
      OBVIOUS
    <3> QED
      BY <2>1, <3>1, RowsGrow
  <2>3. ~ForeignKeyFails(stmt, rows) => rows.row
    BY <1>3 DEF ForeignKeyFails
  <2> QED
    BY <1>3, <2>2, <2>3 DEF Commit
<1>4. CASE stmt = "update job"
  <2> DEFINE f == j \in failed
  <2>1. new = IF rows.row THEN [rows EXCEPT !.progress = last[j], !.failed = f] ELSE rows
    BY <1>4 DEF Effect, Commit
  <2>2. f \in BOOLEAN
    OBVIOUS
  <2> HIDE DEF f
  <2>3. /\ new \in RowSet /\ (rows.row => new.row) /\ new.progress <= last[j]
        /\ \A promised \in RowSet : Keeps(rows, promised) => Keeps(new, promised)
    BY <2>1, <2>2, RowsGrow
  <2> QED
    BY <1>4, <2>1, <2>3 DEF Commit
<1>5. CASE stmt = "delete job"
  <2>1. new = NoRows
    BY <1>5 DEF Effect, Commit
  <2>2. NoRows \in RowSet /\ NoRows.progress = 0
    BY DEF NoRows, RowSet
  <2>3. new.progress <= last[j]
    BY <2>1, <2>2
  <2> QED
    BY <1>5, <2>1, <2>2, <2>3 DEF Commit
<1>6. CASE stmt = Commit
  <2>1. new = rows
    BY <1>6 DEF Effect, Commit
  <2> QED
    BY <2>1
<1> QED
  BY <1>1, <1>2, <1>3, <1>4, <1>5, <1>6 DEF Statements

LEMMA KeepsItself ==
  ASSUME NEW rows \in RowSet
  PROVE  Keeps(rows, rows) /\ Keeps(rows, NoRows) /\ NoRows \in RowSet
BY DEF RowSet, Keeps, NoRows

-----------------------------------------------------------------------------
(* The inductive invariant.                                                *)

Inv == Types /\ Work /\ Fresh /\ Safe /\ NoOrphans

LEMMA InvInit == Init => Inv
<1> SUFFICES ASSUME Init PROVE Inv
  OBVIOUS
<1>1. visible = [j \in Jobs |-> NoRows] /\ durable = visible /\ acked = visible
  BY DEF Init
<1>2. Types
  <2>1. NoRows \in RowSet
    BY DEF NoRows, RowSet
  <2>2. todo \in [Clients -> Seq(Transactions)]
    BY DEF Init
  <2> QED
    BY <1>1, <2>1, <2>2, JobStoreAssumption DEF Init, Types, None, Stages
<1>3. Work /\ Fresh
  BY <1>1 DEF Init, Work, Fresh, Creating, Idle, NoRows, Pruning
<1>4. Safe /\ NoOrphans
  BY <1>1 DEF Init, Safe, NoOrphans, Keeps, NoRows
<1> QED
  BY <1>2, <1>3, <1>4 DEF Inv

\* A request starts an operation on a job: a new one, or one that was saved and that
\* it may run.
LEMMA StartStep ==
  ASSUME Inv, NEW c \in Clients, NEW list \in Seq(Transactions), list # <<>>,
         Tail(list) \in Seq(Later), NEW j,
         Start(c, j, list),
         UNCHANGED <<visible, durable, acked, saved, last, failed>>,
         \/ UNCHANGED <<stage, started>>
         \/ /\ j \in saved
            /\ stage' = [stage EXCEPT ![c] = "run"] /\ started' = started \cup {j},
         \/ j = created + 1 /\ created' = j /\ created < MaxCreated
         \/ j \in saved /\ Head(list) \in Later /\ created' = created
  PROVE  Inv'
<1>1. created \in 0..MaxCreated /\ saved \subseteq 1..created
  BY DEF Inv, Types
<1>2. j \in 1..created' /\ created' \in 0..MaxCreated /\ created \in 0..created'
  <2>1. CASE j = created + 1 /\ created' = j /\ created < MaxCreated
    BY <1>1, <2>1, JobStoreAssumption
  <2>2. CASE j \in saved /\ created' = created
    BY <1>1, <2>2, JobStoreAssumption
  <2> QED
    BY <2>1, <2>2
<1>3. /\ todo' = [todo EXCEPT ![c] = list] /\ target' = [target EXCEPT ![c] = j]
      /\ Idle(c) /\ stage[c] = "request"
  BY DEF Start, Call
<1>4. /\ stage' \in [Clients -> Stages] /\ stage'[c] \in {"request", "run"}
      /\ \A d \in Clients \ {c} : stage'[d] = stage[d]
      /\ started' \subseteq saved /\ started \subseteq started'
      /\ stage'[c] # "request" => j \in started'
  BY <1>3 DEF Inv, Types, Stages, Loop
<1>5. Types'
  <2>1. todo' \in [Clients -> Seq(Transactions)]
    BY <1>3 DEF Inv, Types
  <2>2. target' \in [Clients -> 0..created']
    BY <1>2, <1>3 DEF Inv, Types
  <2>3. saved' \subseteq 1..created'
    BY <1>1, <1>2
  <2> QED
    BY <1>2, <1>4, <2>1, <2>2, <2>3 DEF Inv, Types
<1>6. Work'
  <2>1. ASSUME NEW d \in Clients
        PROVE  /\ ~Idle(d)' => target'[d] # None /\ Tail(todo'[d]) \in Seq(Later)
               /\ stage'[d] # "request" => target'[d] \in started'
               /\ stage'[d] \in Pruning => Idle(d)'
    <3>1. CASE d = c
      BY <1>2, <1>3, <1>4, <3>1 DEF Inv, Types, Pruning, None
    <3>2. CASE d # c
      BY <1>3, <1>4, <3>2 DEF Inv, Types, Work, Idle
    <3> QED
      BY <3>1, <3>2
  <2>2. \A k \in Jobs : acked'[k].row => k \in 1..created'
    <3>1. \A k \in Jobs : acked[k].row => k \in 1..created
      BY DEF Inv, Work
    <3>2. 1..created \subseteq 1..created'
      BY <1>2
    <3> QED
      BY <3>1, <3>2
  <2>3. \A k \in Jobs \ started' : last'[k] = 0 /\ k \notin failed'
    BY <1>4 DEF Inv, Work
  <2> QED
    BY <2>1, <2>2, <2>3 DEF Work
<1>7. Fresh'
  <2> SUFFICES ASSUME NEW d \in Clients, Creating(d)'
               PROVE  /\ target'[d] \notin saved /\ ~acked[target'[d]].row
                      /\ \A e \in Clients \ {d} : target'[e] # target'[d]
    BY DEF Fresh
  <2>1. CASE d = c
    <3>1. j = created + 1 /\ target'[d] = j
      BY <1>3, <2>1 DEF Creating, Inv, Types
    <3>2. \A e \in Clients \ {d} : target'[e] \in 0..created
      BY <1>3, <2>1 DEF Inv, Types
    <3>3. j \notin saved /\ ~acked[j].row
      BY <1>2, <3>1 DEF Inv, Types, Work, Jobs
    <3> QED
      BY <3>1, <3>2, <3>3 DEF Inv, Types
  <2>2. CASE d # c
    <3>1. Creating(d) /\ target'[d] = target[d]
      BY <1>3, <2>2 DEF Creating, Idle, Inv, Types
    <3>2. /\ target[d] \notin saved /\ ~acked[target[d]].row /\ target[d] \in 0..created
          /\ \A e \in Clients \ {d} : target[e] # target[d]
      BY <3>1 DEF Inv, Fresh, Types
    <3>3. j # target[d]
      BY <3>2 DEF Inv, Types
    <3> QED
      BY <1>3, <3>1, <3>2, <3>3 DEF Inv, Types
  <2> QED
    BY <2>1, <2>2
<1>8. Safe' /\ NoOrphans'
  BY DEF Inv, Safe, NoOrphans
<1> QED
  BY <1>5, <1>6, <1>7, <1>8 DEF Inv

LEMMA ListsOfLater ==
  /\ \A a \in Later : <<a>> \in Seq(Transactions) /\ Tail(<<a>>) \in Seq(Later) /\ Head(<<a>>) = a
  /\ \A a \in Transactions, b \in Later :
       <<a, b>> \in Seq(Transactions) /\ Tail(<<a, b>>) \in Seq(Later) /\ Head(<<a, b>>) = a
<1>1. Later \subseteq Transactions
  BY DEF Later
<1>2. ASSUME NEW a \in Later
      PROVE  <<a>> \in Seq(Transactions) /\ Tail(<<a>>) \in Seq(Later) /\ Head(<<a>>) = a
  BY <1>1
<1>3. ASSUME NEW a \in Transactions, NEW b \in Later
      PROVE  <<a, b>> \in Seq(Transactions) /\ Tail(<<a, b>>) \in Seq(Later) /\ Head(<<a, b>>) = a
  <2>1. Tail(<<a, b>>) = <<b>>
    OBVIOUS
  <2>2. <<a, b>> \in Seq(Transactions)
    BY <1>1
  <2>3. <<b>> \in Seq(Later)
    OBVIOUS
  <2>4. Head(<<a, b>>) = a
    OBVIOUS
  <2> QED
    BY <2>1, <2>2, <2>3, <2>4
<1> QED
  BY <1>2, <1>3

LEMMA CallsStep ==
  ASSUME Inv, NEW c \in Clients, CreateJob(c) \/ RunJob(c) \/ DeleteJob(c)
  PROVE  Inv'
<1>1. CASE CreateJob(c)
  <2>1. PICK image \in {<<>>, <<SaveImage>>} : Start(c, created', <<SaveJob>> \o image)
    BY <1>1 DEF CreateJob
  <2>2. /\ <<SaveJob>> \o image \in Seq(Transactions) /\ <<SaveJob>> \o image # <<>>
        /\ Tail(<<SaveJob>> \o image) \in Seq(Later)
    <3>1. Later \subseteq Transactions /\ SaveImage \in Later
      BY Programs DEF Later
    <3>2. <<>> \in Seq(Later) /\ <<SaveImage>> \in Seq(Later)
      BY <3>1
    <3>3. image \in Seq(Later)
      BY <3>2
    <3>4. image \in Seq(Transactions)
      BY <3>1, <3>3
    <3> QED
      BY <3>3, <3>4, Programs, Prefixed
  <2>3. /\ created' = created + 1 /\ created < MaxCreated
        /\ UNCHANGED <<visible, durable, acked, saved, last, failed, stage, started>>
    BY <1>1 DEF CreateJob, db, history, thread
  <2> QED
    BY <2>1, <2>2, <2>3, StartStep
<1>2. CASE RunJob(c)
  <2>1. PICK j \in saved \ started :
          Start(c, j, <<UpdateState>>) /\ started' = started \cup {j}
    BY <1>2 DEF RunJob
  <2>2. /\ <<UpdateState>> \in Seq(Transactions) /\ <<UpdateState>> # <<>>
        /\ Tail(<<UpdateState>>) \in Seq(Later) /\ Head(<<UpdateState>>) \in Later
    BY Programs, ListsOfLater
  <2>3. /\ UNCHANGED <<visible, durable, acked, saved, created, last, failed>>
        /\ stage' = [stage EXCEPT ![c] = "run"]
    BY <1>2 DEF RunJob, db
  <2> QED
    BY <2>1, <2>2, <2>3, StartStep
<1>3. CASE DeleteJob(c)
  <2>1. PICK j \in saved : Start(c, j, <<Delete>>)
    BY <1>3 DEF DeleteJob
  <2>2. /\ <<Delete>> \in Seq(Transactions) /\ <<Delete>> # <<>>
        /\ Tail(<<Delete>>) \in Seq(Later) /\ Head(<<Delete>>) \in Later
    BY Programs, ListsOfLater
  <2>3. UNCHANGED <<visible, durable, acked, saved, created, last, failed, stage, started>>
    BY <1>3 DEF DeleteJob, db, history, thread
  <2> QED
    BY <2>1, <2>2, <2>3, StartStep
<1> QED
  BY <1>1, <1>2, <1>3

\* A job thread starts its next operations.
LEMMA ThreadCallStep ==
  ASSUME Inv, NEW c \in Clients, NEW list \in Seq(Later), list # <<>>, Call(c, list),
         target[c] \in started, NEW to \in Stages \ Pruning,
         stage' = [stage EXCEPT ![c] = to],
         last' \in [Jobs -> 0..PathLen], \A j \in Jobs : last[j] <= last'[j],
         \A j \in Jobs \ {target[c]} : last'[j] = last[j],
         failed \subseteq failed' /\ failed' \subseteq failed \cup {target[c]},
         UNCHANGED <<visible, durable, acked, saved, started, target, created>>
  PROVE  Inv'
<1>1. todo' = [todo EXCEPT ![c] = list] /\ Idle(c)
  BY DEF Call
<1>2. list \in Seq(Transactions) /\ Tail(list) \in Seq(Later) /\ Head(list) \in Later
  <2>1. Later \subseteq Transactions
    BY DEF Later
  <2> QED
    BY <2>1
<1>3. target[c] \in saved /\ target[c] # None
  BY DEF Inv, Types, None
<1>4. Types'
  <2>1. todo' \in [Clients -> Seq(Transactions)]
    BY <1>1, <1>2 DEF Inv, Types
  <2>2. stage' \in [Clients -> Stages]
    BY DEF Inv, Types
  <2>3. failed' \subseteq Jobs
    <3>1. target[c] \in Jobs
      BY <1>3, JobStoreAssumption DEF Inv, Types, Jobs, None
    <3> QED
      BY <3>1 DEF Inv, Types
  <2> QED
    BY <2>1, <2>2, <2>3 DEF Inv, Types
<1>5. Work'
  <2>1. ASSUME NEW d \in Clients
        PROVE  /\ ~Idle(d)' => target'[d] # None /\ Tail(todo'[d]) \in Seq(Later)
               /\ stage'[d] # "request" => target'[d] \in started'
               /\ stage'[d] \in Pruning => Idle(d)'
    <3>1. CASE d = c
      BY <1>1, <1>2, <1>3, <3>1 DEF Inv, Types
    <3>2. CASE d # c
      BY <1>1, <3>2 DEF Inv, Types, Work, Idle
    <3> QED
      BY <3>1, <3>2
  <2>2. \A j \in Jobs \ started' : last'[j] = 0 /\ j \notin failed'
    BY DEF Inv, Work
  <2> QED
    BY <2>1, <2>2 DEF Inv, Work
<1>6. Fresh'
  <2>1. ASSUME NEW d \in Clients, Creating(d)'
        PROVE  Creating(d)
    <3>1. d # c
      BY <1>1, <1>2, <2>1 DEF Creating, Inv, Types
    <3> QED
      BY <1>1, <2>1, <3>1 DEF Creating, Idle, Inv, Types
  <2> QED
    BY <2>1 DEF Inv, Fresh
<1>7. Safe' /\ NoOrphans'
  <2>1. ASSUME NEW j \in Jobs
        PROVE  visible[j].progress <= last'[j] /\ durable[j].progress <= last'[j]
    <3>1. visible[j].progress \in Nat /\ durable[j].progress \in Nat
      BY DEF Inv, Types, RowSet
    <3>2. /\ visible[j].progress <= last[j] /\ durable[j].progress <= last[j]
          /\ last[j] <= last'[j] /\ last[j] \in 0..PathLen /\ last'[j] \in 0..PathLen
      BY DEF Inv, Types, Safe
    <3> QED
      BY <3>1, <3>2, JobStoreAssumption
  <2> QED
    BY <2>1 DEF Inv, Safe, NoOrphans
<1> QED
  BY <1>4, <1>5, <1>6, <1>7 DEF Inv

LEMMA ThreadJobs ==
  ASSUME Inv, NEW c \in Clients, stage[c] # "request"
  PROVE  target[c] \in started /\ target[c] \in saved /\ target[c] \in Jobs
<1>1. target[c] \in started /\ target[c] \in saved
  BY DEF Inv, Work, Types
<1> QED
  BY <1>1, JobStoreAssumption DEF Inv, Types, Jobs

LEMMA ThreadsStep ==
  ASSUME Inv, NEW c \in Clients, RecordWaypoint(c) \/ StoreOutcome(c)
  PROVE  Inv'
<1>1. stage[c] \in Loop \cup {"except"} /\ stage[c] # "request"
  BY DEF RecordWaypoint, StoreOutcome, Loop
<1>2. target[c] \in started /\ target[c] \in Jobs
  BY <1>1, ThreadJobs
<1>3. "loop" \in Stages \ Pruning /\ "final" \in Stages \ Pruning
  BY DEF Stages, Loop, Pruning
<1>4. CASE RecordWaypoint(c)
  <2>1. /\ Call(c, <<SaveMeasurement, UpdateState>>)
        /\ stage' = [stage EXCEPT ![c] = "loop"]
        /\ last' = [last EXCEPT ![target[c]] = last[target[c]] + 1]
        /\ last[target[c]] < PathLen
        /\ failed' = failed
        /\ UNCHANGED <<visible, durable, acked, saved, started, target, created>>
    BY <1>4 DEF RecordWaypoint, db, history
  <2>2. <<SaveMeasurement, UpdateState>> \in Seq(Later) /\ <<SaveMeasurement, UpdateState>> # <<>>
    BY Programs
  <2>3. /\ last' \in [Jobs -> 0..PathLen]
        /\ \A j \in Jobs : last[j] <= last'[j]
        /\ \A j \in Jobs \ {target[c]} : last'[j] = last[j]
    BY <1>2, <2>1, JobStoreAssumption DEF Inv, Types
  <2>4. failed \subseteq failed' /\ failed' \subseteq failed \cup {target[c]}
    BY <2>1
  <2> QED
    BY <1>2, <1>3, <2>1, <2>2, <2>3, <2>4, ThreadCallStep
<1>5. CASE StoreOutcome(c)
  <2>1. /\ Call(c, <<UpdateState>>)
        /\ stage' = [stage EXCEPT ![c] = "final"]
        /\ last' = last
        /\ failed \subseteq failed' /\ failed' \subseteq failed \cup {target[c]}
        /\ UNCHANGED <<visible, durable, acked, saved, started, target, created>>
    BY <1>5 DEF StoreOutcome, db, history
  <2>2. <<UpdateState>> \in Seq(Later) /\ <<UpdateState>> # <<>>
    BY Programs
  <2>3. /\ last' \in [Jobs -> 0..PathLen]
        /\ \A j \in Jobs : last[j] <= last'[j]
        /\ \A j \in Jobs \ {target[c]} : last'[j] = last[j]
    BY <2>1, JobStoreAssumption DEF Inv, Types
  <2> QED
    BY <1>2, <1>3, <2>1, <2>2, <2>3, ThreadCallStep
<1> QED
  BY <1>4, <1>5

LEMMA ExecuteStep ==
  ASSUME Inv, NEW c \in Clients, Execute(c)
  PROVE  Inv'
<1> DEFINE j == target[c]
           stmt == Stmt(c)
<1>1. /\ ~Idle(c) /\ ~ForeignKeyFails(stmt, visible[j]) /\ created' = created
      /\ visible' = [visible EXCEPT ![j] = Effect(stmt, j, visible[j])]
      /\ durable' = IF stmt = Commit THEN visible ELSE durable
      /\ acked' = [acked EXCEPT ![j] = IF stmt = "delete job" THEN NoRows
                                       ELSE IF EndsOperation(c) THEN visible'[j] ELSE acked[j]]
      /\ saved' = IF EndsOperation(c) THEN saved \cup {j} ELSE saved
      /\ todo' = [todo EXCEPT ![c] = Rest(c)]
      /\ target' = [target EXCEPT ![c] =
                      IF Rest(c) = <<>> /\ stage[c] = "request" THEN None ELSE target[c]]
      /\ UNCHANGED <<stage, last, failed, started>>
  BY DEF Execute, MayRun, Finish, thread
<1>2. j \in 1..created /\ j \in Jobs /\ created \in 0..MaxCreated
  <2>1. j \in 0..created /\ created \in 0..MaxCreated
    BY DEF Inv, Types
  <2>2. j # 0
    BY <1>1 DEF Inv, Work, None
  <2> QED
    BY <2>1, <2>2, JobStoreAssumption DEF Jobs
<1>3. /\ Rest(c) \in Seq(Transactions)
      /\ Rest(c) # <<>> => Tail(Rest(c)) \in Seq(Later)
      /\ Rest(c) # <<>> /\ Head(Rest(c)) \notin Later => ~EndsOperation(c) /\ Creating(c)
      /\ stmt \in Statements
      /\ EndsOperation(c) => stmt = Commit
      /\ stmt \in {"insert job", "delete waypoints"} => Creating(c)
  BY <1>1, RestIsWork DEF Inv
<1>4. /\ visible[j] \in RowSet /\ durable[j] \in RowSet /\ acked[j] \in RowSet
      /\ last[j] \in Nat /\ visible[j].progress <= last[j]
  BY <1>2, JobStoreAssumption DEF Inv, Types, Safe
<1> DEFINE new == Effect(stmt, j, visible[j])
<1>5. /\ new \in RowSet /\ new.progress <= last[j]
      /\ ~new.row => new = NoRows
      /\ stmt \notin {"insert job", "delete waypoints", "delete job"} =>
           (Keeps(visible[j], acked[j]) => Keeps(new, acked[j]))
      /\ stmt = Commit => new = visible[j]
  <2>1. PICK s \in Statements, r \in RowSet, n \in {new}, i \in Jobs :
          s = stmt /\ r = visible[j] /\ n = Effect(s, i, r) /\ i = j
    BY <1>2, <1>3, <1>4
  <2>2. last[i] \in Nat /\ r.progress <= last[i] /\ last[i] = last[j]
    BY <1>4, <2>1
  <2>3. n = Effect(s, i, r) /\ s \in Statements /\ r \in RowSet /\ i \in Jobs
    BY <2>1
  <2>4. ~ForeignKeyFails(s, r) /\ (~r.row => r = NoRows)
    BY <1>1, <1>2, <2>1 DEF Inv, NoOrphans
  <2>5. n = new
    BY <2>1
  <2> HIDE DEF new, stmt, j
  <2>6. /\ n \in RowSet /\ n.progress <= last[i]
        /\ ~ForeignKeyFails(s, r) /\ (~r.row => r = NoRows) => (~n.row => n = NoRows)
        /\ s \notin {"insert job", "delete waypoints", "delete job"} =>
             \A promised \in RowSet : Keeps(r, promised) => Keeps(n, promised)
        /\ s = Commit => n = r
    BY <2>2, <2>3, EffectOnRows
  <2> QED
    BY <1>4, <2>1, <2>2, <2>6, <2>4, <2>5
<1>6. /\ visible'[j] = new
      /\ \A k \in Jobs \ {j} : visible'[k] = visible[k] /\ acked'[k] = acked[k]
      /\ acked'[j] = IF stmt = "delete job" THEN NoRows
                     ELSE IF EndsOperation(c) THEN new ELSE acked[j]
  BY <1>1, <1>2 DEF Inv, Types
<1> HIDE DEF j, stmt, new
<1>7. Types'
  <2>1. visible' \in [Jobs -> RowSet]
    BY <1>1, <1>5, <1>6 DEF Inv, Types
  <2>2. durable' \in [Jobs -> RowSet]
    BY <1>1 DEF Inv, Types
  <2>3. acked' \in [Jobs -> RowSet]
    BY <1>1, <1>4, <1>5, <1>6, KeepsItself DEF Inv, Types
  <2>4. target' \in [Clients -> 0..created]
    <3>1. None \in 0..created
      BY <1>2 DEF None
    <3>2. target' = [target EXCEPT ![c] =
                       IF Rest(c) = <<>> /\ stage[c] = "request" THEN None ELSE target[c]]
      BY <1>1
    <3>3. target \in [Clients -> 0..created]
      BY DEF Inv, Types
    <3> QED
      BY <3>1, <3>2, <3>3
  <2>5. saved' \subseteq 1..created
    BY <1>1, <1>2 DEF Inv, Types
  <2>6. todo' \in [Clients -> Seq(Transactions)]
    BY <1>1, <1>3 DEF Inv, Types
  <2> QED
    BY <1>1, <2>1, <2>2, <2>3, <2>4, <2>6, <2>5 DEF Inv, Types
<1>8. Work'
  <2>1. \A d \in Clients : ~Idle(d)' => target'[d] # None /\ Tail(todo'[d]) \in Seq(Later)
    BY <1>1, <1>3 DEF Inv, Types, Work, Idle
  <2>2. \A k \in Jobs : acked'[k].row => k \in 1..created
    BY <1>2, <1>6 DEF Inv, Work
  <2>3. \A d \in Clients : stage'[d] # "request" => target'[d] \in started'
    BY <1>1 DEF Inv, Types, Work
  <2>4. \A d \in Clients : stage'[d] \in Pruning => Idle(d)'
    BY <1>1 DEF Inv, Types, Work, Idle
  <2>5. \A k \in Jobs \ started' : last'[k] = 0 /\ k \notin failed'
    BY <1>1 DEF Inv, Work
  <2> QED
    BY <1>1, <2>1, <2>2, <2>3, <2>4, <2>5 DEF Work
<1>9. Fresh'
  <2> SUFFICES ASSUME NEW d \in Clients, Creating(d)'
               PROVE  /\ target'[d] \notin saved' /\ ~acked'[target'[d]].row
                      /\ \A e \in Clients \ {d} : target'[e] # target'[d]
    BY DEF Fresh
  <2>1. CASE d = c
    <3>1. todo'[c] = Rest(c) /\ Rest(c) # <<>> /\ Head(Rest(c)) \notin Later
      BY <1>1, <2>1 DEF Creating, Idle, Inv, Types
    <3>2. ~EndsOperation(c) /\ Creating(c) /\ target' = target
      BY <1>1, <1>3, <3>1 DEF Inv, Types
    <3>3. j \notin saved /\ ~acked[j].row /\ \A e \in Clients \ {c} : target[e] # j
      BY <3>2 DEF Inv, Fresh, j
    <3>4. ~acked'[j].row
      <4>1. ~NoRows.row
        BY DEF NoRows
      <4> QED
        BY <1>6, <3>2, <3>3, <4>1
    <3> QED
      BY <1>1, <2>1, <3>2, <3>3, <3>4 DEF j
  <2>2. CASE d # c
    <3>1. Creating(d) /\ target'[d] = target[d] /\ ~Idle(d)
      BY <1>1, <2>2 DEF Creating, Idle, Inv, Types
    <3>2. /\ target[d] \notin saved /\ ~acked[target[d]].row
          /\ \A e \in Clients \ {d} : target[e] # target[d]
      BY <3>1 DEF Inv, Fresh
    <3>3. target[d] # None /\ target[d] \in 0..created
      BY <3>1 DEF Inv, Types, Work
    <3>4. target[d] \in Jobs
      BY <1>2, <3>3, JobStoreAssumption DEF Jobs, None
    <3>5. /\ target[d] \notin saved /\ ~acked[target[d]].row /\ target[d] \in Jobs
          /\ target[d] # None
          /\ \A e \in Clients \ {d} : target[e] # target[d]
      BY <3>2, <3>3, <3>4
    <3>6. target[d] # j
      BY <2>2, <3>5 DEF j
    <3>7. target[d] \notin saved' /\ ~acked'[target[d]].row
      BY <1>1, <1>6, <3>5, <3>6
    <3>8. \A e \in Clients \ {d} : target'[e] # target[d]
      BY <1>1, <3>5 DEF Inv, Types
    <3> QED
      BY <3>1, <3>7, <3>8
  <2> QED
    BY <2>1, <2>2
<1>10. Safe'
  <2> SUFFICES ASSUME NEW k \in Jobs
               PROVE  Keeps(visible'[k], acked'[k]) /\ Keeps(durable'[k], acked'[k])
    <3>1. ASSUME NEW k \in Jobs
          PROVE  visible'[k].progress <= last'[k] /\ durable'[k].progress <= last'[k]
      BY <1>1, <1>5, <1>6 DEF Inv, Safe
    <3> QED
      BY <3>1 DEF Safe
  <2>1. Keeps(visible[k], acked[k]) /\ Keeps(durable[k], acked[k])
    BY DEF Inv, Safe
  <2>2. CASE k # j
    BY <1>1, <1>6, <2>1, <2>2
  <2>3. CASE k = j /\ ~acked'[k].row
    BY <2>3 DEF Keeps
  <2>4. CASE k = j /\ EndsOperation(c) /\ acked'[k].row
    <3>1. stmt = Commit /\ stmt # "delete job"
      BY <1>3, <2>4 DEF Commit
    <3>2. acked'[k] = visible[j] /\ visible'[k] = visible[j] /\ durable'[k] = visible[j]
      BY <1>1, <1>5, <1>6, <2>4, <3>1
    <3> QED
      BY <1>4, <3>2, KeepsItself
  <2>5. CASE k = j /\ ~EndsOperation(c) /\ acked'[k].row
    <3>1. ~NoRows.row
      BY DEF NoRows
    <3>2. stmt # "delete job" /\ acked'[k] = acked[j] /\ acked[j].row
      BY <1>6, <2>5, <3>1
    <3>3. stmt \notin {"insert job", "delete waypoints"}
      BY <1>3, <3>2 DEF Inv, Fresh, j
    <3>4. Keeps(new, acked[j])
      BY <1>5, <2>1, <2>5, <3>2, <3>3
    <3> QED
      BY <1>1, <1>6, <2>1, <2>5, <3>2, <3>4
  <2> QED
    BY <2>2, <2>3, <2>4, <2>5
<1>11. NoOrphans'
  <2>1. \A k \in Jobs : (~visible[k].row => visible[k] = NoRows) /\ (~durable[k].row => durable[k] = NoRows)
    BY DEF Inv, NoOrphans
  <2>2. \A k \in Jobs : ~visible'[k].row => visible'[k] = NoRows
    BY <1>5, <1>6, <2>1
  <2>3. \A k \in Jobs : ~durable'[k].row => durable'[k] = NoRows
    BY <1>1, <2>1
  <2> QED
    BY <2>2, <2>3 DEF NoOrphans
<1> QED
  BY <1>7, <1>8, <1>9, <1>10, <1>11 DEF Inv

\* A statement that fails, or an orphan that is refused, undoes nothing that returned.
LEMMA RaiseStep ==
  ASSUME Inv, NEW c \in Clients, MayRun(c), Raise(c), visible' \in {visible, durable}
  PROVE  Inv'
<1>1. /\ todo' = [todo EXCEPT ![c] = <<>>]
      /\ stage' = [stage EXCEPT ![c] = AfterException(c)]
      /\ target' = [target EXCEPT ![c] = IF stage'[c] = "request" THEN None ELSE target[c]]
      /\ failed' = IF stage[c] = "loop" THEN failed \cup {target[c]} ELSE failed
      /\ UNCHANGED <<durable, acked, saved, created, last, started>>
  BY DEF Raise
<1>2. /\ stage'[c] \in {"except", "request"} /\ stage' \in [Clients -> Stages]
      /\ stage'[c] # "request" => stage[c] # "request"
      /\ \A d \in Clients \ {c} : stage'[d] = stage[d] /\ target'[d] = target[d]
      /\ stage'[c] = "request" => target'[c] = None
      /\ stage'[c] # "request" => target'[c] = target[c]
  BY <1>1 DEF AfterException, Inv, Types, Stages
<1>3. Types'
  <2>1. <<>> \in Seq(Transactions)
    OBVIOUS
  <2>2. todo' \in [Clients -> Seq(Transactions)]
    BY <1>1, <2>1 DEF Inv, Types
  <2>3. target' \in [Clients -> 0..created] /\ created' = created
    BY <1>1, JobStoreAssumption DEF Inv, Types, None
  <2>4. failed' \subseteq Jobs
    <3>1. stage[c] = "loop" => target[c] \in Jobs
      BY ThreadJobs
    <3> QED
      BY <1>1, <3>1 DEF Inv, Types
  <2> QED
    BY <1>1, <1>2, <2>2, <2>3, <2>4 DEF Inv, Types
<1>4. Work'
  <2>1. ASSUME NEW d \in Clients
        PROVE  /\ ~Idle(d)' => target'[d] # None /\ Tail(todo'[d]) \in Seq(Later)
               /\ stage'[d] # "request" => target'[d] \in started'
               /\ stage'[d] \in Pruning => Idle(d)'
    <3>1. CASE d = c
      BY <1>1, <1>2, <3>1 DEF Inv, Types, Work, Pruning, Idle
    <3>2. CASE d # c
      BY <1>1, <1>2, <3>2 DEF Inv, Types, Work, Idle
    <3> QED
      BY <3>1, <3>2
  <2>2. \A j \in Jobs \ started' : last'[j] = 0 /\ j \notin failed'
    <3>1. stage[c] = "loop" => target[c] \in started
      BY ThreadJobs
    <3> QED
      BY <1>1, <3>1 DEF Inv, Work
  <2> QED
    BY <1>1, <2>1, <2>2 DEF Inv, Work
<1>5. Fresh'
  <2>1. ASSUME NEW d \in Clients, Creating(d)'
        PROVE  Creating(d) /\ d # c
    BY <1>1, <2>1 DEF Creating, Idle, Inv, Types
  <2>2. ASSUME NEW d \in Clients, Creating(d), d # c
        PROVE  /\ target'[d] = target[d] /\ target[d] # None
               /\ target[d] \notin saved /\ ~acked[target[d]].row
               /\ \A e \in Clients \ {d} : target'[e] # target[d]
    BY <1>2, <2>2 DEF Inv, Fresh, Work, Creating
  <2> QED
    BY <1>1, <2>1, <2>2 DEF Fresh
<1>6. Safe' /\ NoOrphans'
  BY <1>1 DEF Inv, Safe, NoOrphans
<1> QED
  BY <1>3, <1>4, <1>5, <1>6 DEF Inv

\* prune_jobs goes from one of its statements to the next.
LEMMA GoPruneStep ==
  ASSUME Inv, NEW c \in Clients, NEW to \in Pruning \cup {"request"},
         stage[c] # "request", Idle(c), GoPrune(c, to),
         UNCHANGED <<todo, created, saved, started, last, failed>>,
         visible' \in [Jobs -> RowSet], durable' \in [Jobs -> RowSet], acked' \in [Jobs -> RowSet],
         \A j \in Jobs : acked'[j].row => acked[j].row,
         Safe', NoOrphans'
  PROVE  Inv'
<1>1. /\ stage' = [stage EXCEPT ![c] = to]
      /\ target' = [target EXCEPT ![c] = IF to = "request" THEN None ELSE target[c]]
  BY DEF GoPrune
<1>2. Types'
  <2>1. stage' \in [Clients -> Stages]
    BY <1>1 DEF Inv, Types, Stages
  <2>2. target' \in [Clients -> 0..created]
    BY <1>1, JobStoreAssumption DEF Inv, Types, None
  <2> QED
    BY <2>1, <2>2 DEF Inv, Types
<1>3. Work'
  <2>1. ASSUME NEW d \in Clients
        PROVE  /\ ~Idle(d)' => target'[d] # None /\ Tail(todo'[d]) \in Seq(Later)
               /\ stage'[d] # "request" => target'[d] \in started'
               /\ stage'[d] \in Pruning => Idle(d)'
    BY <1>1 DEF Inv, Types, Work, Idle
  <2> QED
    BY <2>1 DEF Inv, Work
<1>4. Fresh'
  <2>1. ASSUME NEW d \in Clients, Creating(d)'
        PROVE  Creating(d) /\ d # c
    BY <2>1 DEF Creating, Idle, Inv, Types
  <2>2. ASSUME NEW d \in Clients, Creating(d), d # c
        PROVE  /\ target'[d] = target[d] /\ target[d] # None
               /\ target[d] \notin saved /\ ~acked[target[d]].row /\ target[d] \in Jobs
               /\ \A e \in Clients \ {d} : target'[e] # target[d]
    <3>1. /\ target[d] \notin saved /\ ~acked[target[d]].row /\ target[d] # None
          /\ \A e \in Clients \ {d} : target[e] # target[d]
      BY <2>2 DEF Inv, Fresh, Work, Creating
    <3>2. target[d] \in Jobs
      BY <3>1, JobStoreAssumption DEF Inv, Types, Jobs, None
    <3>3. target'[d] = target[d] /\ \A e \in Clients \ {d} : target'[e] \in {None, target[e]}
      BY <1>1, <2>2 DEF Inv, Types
    <3> QED
      BY <3>1, <3>2, <3>3
  <2> QED
    BY <2>1, <2>2 DEF Fresh
<1> QED
  BY <1>2, <1>3, <1>4 DEF Inv

LEMMA PruneStep ==
  ASSUME Inv, NEW c \in Clients, Prune(c)
  PROVE  Inv'
<1>1. stage[c] # "request" /\ Idle(c)
  BY DEF Prune, PruneCount, PruneSelect, PruneDelete, PruneCommit, PruneFails, Pruning, Inv,
     Work
<1>2. /\ {"select", "delete", "commit"} \subseteq Pruning
      /\ UNCHANGED <<todo, created, saved, started, last, failed>>
  BY DEF Prune, PruneCount, PruneSelect, PruneDelete, PruneCommit, PruneFails, Pruning, history
<1>3. CASE PruneCount(c) \/ PruneSelect(c) \/ PruneCommit(c)
  <2>1. PICK to \in Pruning \cup {"request"} : GoPrune(c, to)
    BY <1>2, <1>3 DEF PruneCount, PruneSelect, PruneCommit
  <2>2. /\ visible' = visible /\ acked' = acked
        /\ durable' \in {durable, visible}
    BY <1>3 DEF PruneCount, PruneSelect, PruneCommit, db, history
  <2>3. Safe' /\ NoOrphans'
    BY <1>2, <2>2 DEF Inv, Safe, NoOrphans
  <2>4. /\ visible' \in [Jobs -> RowSet] /\ durable' \in [Jobs -> RowSet]
        /\ acked' \in [Jobs -> RowSet] /\ \A j \in Jobs : acked'[j].row => acked[j].row
    BY <2>2 DEF Inv, Types
  <2> QED
    BY <1>1, <1>2, <2>1, <2>3, <2>4, GoPruneStep
<1>4. CASE PruneFails(c)
  <2>1. GoPrune(c, "request")
    BY <1>4 DEF PruneFails
  <2>2. /\ durable' = durable /\ acked' = acked
        /\ visible' \in {durable, visible}
    BY <1>4 DEF PruneFails
  <2>3. Safe' /\ NoOrphans'
    BY <1>2, <2>2 DEF Inv, Safe, NoOrphans
  <2>4. /\ visible' \in [Jobs -> RowSet] /\ durable' \in [Jobs -> RowSet]
        /\ acked' \in [Jobs -> RowSet] /\ \A j \in Jobs : acked'[j].row => acked[j].row
    BY <2>2 DEF Inv, Types
  <2> QED
    BY <1>1, <1>2, <2>1, <2>3, <2>4, GoPruneStep
<1>5. CASE PruneDelete(c)
  <2>1. GoPrune(c, "commit") /\ durable' = durable
    BY <1>5 DEF PruneDelete
  <2>2. \A j \in Jobs :
        \/ visible'[j] = visible[j] /\ acked'[j] = acked[j]
        \/ visible'[j] = NoRows /\ acked'[j] = NoRows
    <3>1. /\ visible' = [j \in Jobs |-> IF j \in ids[c] THEN NoRows ELSE visible[j]]
          /\ acked' = [j \in Jobs |-> IF j \in ids[c] THEN NoRows ELSE acked[j]]
      BY <1>5 DEF PruneDelete
    <3> QED
      BY <3>1
  <2>3. visible' \in [Jobs -> RowSet] /\ acked' \in [Jobs -> RowSet] /\ durable' \in [Jobs -> RowSet]
    BY <1>5, <2>1, KeepsItself DEF PruneDelete, Inv, Types, NoRows, RowSet
  <2>4. \A j \in Jobs : acked'[j].row => acked[j].row
    BY <2>2 DEF NoRows
  <2>5. Safe' /\ NoOrphans'
    <3>1. \A j \in Jobs : last'[j] \in 0..PathLen /\ 0 <= last'[j]
      BY <1>2, JobStoreAssumption DEF Inv, Types
    <3>2. NoRows.progress = 0 /\ ~NoRows.row
      BY DEF NoRows
    <3>3. \A j \in Jobs : visible'[j].progress <= last'[j] /\ durable'[j].progress <= last'[j]
      BY <1>2, <2>1, <2>2, <3>1, <3>2 DEF Inv, Safe
    <3>4. \A j \in Jobs : Keeps(visible'[j], acked'[j]) /\ Keeps(durable'[j], acked'[j])
      BY <2>1, <2>2, <3>2 DEF Inv, Safe, Keeps
    <3> QED
      BY <2>1, <2>2, <3>3, <3>4 DEF Inv, Safe, NoOrphans
  <2> QED
    BY <1>1, <1>2, <2>1, <2>3, <2>4, <2>5, GoPruneStep
<1> QED
  BY <1>3, <1>4, <1>5 DEF Prune

LEMMA CrashStep ==
  ASSUME Inv, Crash
  PROVE  Inv'
<1>1. /\ visible' = durable /\ UNCHANGED <<durable, created, acked, saved, last, failed, started>>
      /\ todo' = [c \in Clients |-> <<>>] /\ target' = [c \in Clients |-> None]
      /\ stage' = [c \in Clients |-> "request"]
  BY DEF Crash
<1>2. Types'
  <2>1. <<>> \in Seq(Transactions)
    OBVIOUS
  <2>2. "request" \in Stages
    BY DEF Stages
  <2> QED
    BY <1>1, <2>1, <2>2 DEF Inv, Types, None
<1>3. Work' /\ Fresh'
  BY <1>1 DEF Inv, Work, Fresh, Creating, Idle, Pruning
<1>4. Safe' /\ NoOrphans'
  BY <1>1 DEF Inv, Safe, NoOrphans
<1> QED
  BY <1>2, <1>3, <1>4 DEF Inv

LEMMA InvStep ==
  ASSUME Inv, [Next]_vars
  PROVE  Inv'
<1>1. CASE UNCHANGED vars
  BY <1>1 DEF vars, db, work, thread, history, Inv, Types, Work, Idle, Fresh, Creating, Safe,
              NoOrphans
<1>2. ASSUME NEW c \in Clients, RefuseOrphan(c) \/ FailStatement(c)
      PROVE  Inv'
  <2>1. MayRun(c) /\ Raise(c) /\ visible' \in {visible, durable}
    BY <1>2 DEF RefuseOrphan, FailStatement
  <2> QED
    BY <2>1, RaiseStep
<1>3. CASE Next
  BY <1>2, <1>3, CallsStep, ThreadsStep, ExecuteStep, PruneStep, CrashStep DEF Next, Client
<1> QED
  BY <1>1, <1>3

LEMMA InvAlways == Spec => []Inv
BY InvInit, InvStep, PTL DEF Spec

\* Whatever an operation stored before it returned is in the database file until the
\* job is deleted: no crash and no failing or unfinished operation of another thread on
\* the shared connection takes it away.
THEOREM ReturnedStays == Spec => []ReturnedIsDurable
<1>1. Inv => ReturnedIsDurable
  BY DEF Inv, Safe, ReturnedIsDurable
<1> QED
  BY <1>1, InvAlways, PTL

\* No waypoint, image or measurement is stored without its job, neither in what the
\* threads see nor in what a restart finds.
THEOREM RowsHaveJobs == Spec => []NoOrphans
<1>1. Inv => NoOrphans
  BY DEF Inv
<1> QED
  BY <1>1, InvAlways, PTL

-----------------------------------------------------------------------------

(* Where a client is in its operation.                                     *)

\* The i-th statement of save_job.
SaveStatement(i) == CASE i = 1 -> "insert job"
                      [] i = 2 -> "delete waypoints"
                      [] i \in 3..PathLen + 2 -> "insert waypoint"
                      [] i = PathLen + 3 -> Commit

\* t is what is left of save_job after Done(t) statements.
Done(t)     == PathLen + 3 - Len(t)
SaveRest(t) == Len(t) \in 1..PathLen + 3 /\ \A i \in 1..Len(t) : t[i] = SaveStatement(i + Done(t))

Saving(c)  == ~Idle(c) /\ target[c] \notin saved
Written    == <<Commit>>
Measuring  == <<SaveMeasurement, UpdateState>>
Measured   == <<Written, UpdateState>>
Counting   == <<UpdateState>>

\* What a client can have left to do about a job that is saved.
Left(s) ==
  CASE s = "request" -> {<<>>, <<SaveImage>>, <<Delete>>, <<Written>>}
    [] s = "run"     -> {<<>>, Counting, <<Written>>}
    [] s = "loop"    -> {<<>>, Measuring, Measured, Counting, <<Written>>}
    [] s = "final"   -> {<<>>, Counting, <<Written>>}
    [] OTHER         -> {<<>>}

\* A transaction is open once its first statement is done.
Opening == {"insert job", "insert image", "insert measurement", "update job", "delete job"}
Open(c) == ~Idle(c) /\ Stmt(c) \notin Opening

\* Whoever writes about a job that is not saved yet is a request that is saving it.
Form(c) ==
  /\ Idle(c) /\ stage[c] = "request" => target[c] = None
  /\ Saving(c) => SaveRest(Head(todo[c])) /\ Tail(todo[c]) \in {<<>>, <<SaveImage>>}
  /\ ~Saving(c) => todo[c] \in Left(stage[c])
Forms == \A c \in Clients : Form(c)

\* A job is saved by one client, and run by one thread.
Alone == \A c, d \in Clients : c # d =>
  /\ Saving(c) => target[d] # target[c]
  /\ stage[c] # "request" /\ stage[d] # "request" => target[d] # target[c]

\* Nobody but the holder of the lock has a transaction open.
Locks ==
  /\ lock \in Clients \cup {NoOne}
  /\ \A c \in Clients : Open(c) => lock = c

ControlInv == Forms /\ Alone /\ Locks

LEMMA Concatenated ==
  ASSUME NEW S, NEW s \in Seq(S), NEW t \in Seq(S)
  PROVE  /\ s \o t \in Seq(S) /\ Len(s \o t) = Len(s) + Len(t)
         /\ \A i \in 1..Len(s) : (s \o t)[i] = s[i]
         /\ \A i \in 1..Len(t) : (s \o t)[Len(s) + i] = t[i]
OBVIOUS

\* The statements of save_job by number.
LEMMA SaveStatements ==
  /\ SaveStatement(1) = "insert job" /\ SaveStatement(2) = "delete waypoints"
  /\ \A i \in 3..PathLen + 2 : SaveStatement(i) = "insert waypoint"
  /\ SaveStatement(PathLen + 3) = Commit
<1>1. /\ 1 # 2 /\ 1 \notin 3..PathLen + 2 /\ 1 # PathLen + 3
      /\ 2 \notin 3..PathLen + 2 /\ 2 # PathLen + 3
      /\ PathLen + 3 \notin 3..PathLen + 2
  BY JobStoreAssumption
<1>2. \A i \in 3..PathLen + 2 : i # 1 /\ i # 2 /\ i # PathLen + 3
  BY JobStoreAssumption
<1>3. SaveStatement(1) = "insert job" /\ SaveStatement(2) = "delete waypoints"
  BY <1>1, Zenon DEF SaveStatement
<1>4. \A i \in 3..PathLen + 2 : SaveStatement(i) = "insert waypoint"
  BY <1>2, Zenon DEF SaveStatement
<1>5. SaveStatement(PathLen + 3) = Commit
  BY <1>1, Zenon DEF SaveStatement
<1> QED
  BY <1>3, <1>4, <1>5, Zenon

\* Only the first opens a transaction, and only the last is a commit.
LEMMA SaveStatementKinds ==
  ASSUME NEW i \in 1..PathLen + 3
  PROVE  /\ SaveStatement(i) \in Statements
         /\ SaveStatement(i) = Commit <=> i = PathLen + 3
         /\ SaveStatement(i) \in Opening <=> i = 1
<1>1. i = 1 \/ i = 2 \/ i \in 3..PathLen + 2 \/ i = PathLen + 3
  BY JobStoreAssumption
<1>2. /\ 1 # PathLen + 3 /\ 2 # PathLen + 3 /\ 2 # 1
      /\ i \in 3..PathLen + 2 => i # 1 /\ i # PathLen + 3
  BY JobStoreAssumption
<1>3. CASE i = 1
  BY <1>2, <1>3, SaveStatements, Zenon DEF Statements, Opening, Commit
<1>4. CASE i = 2
  BY <1>2, <1>4, SaveStatements, Zenon DEF Statements, Opening, Commit
<1>5. CASE i \in 3..PathLen + 2
  BY <1>2, <1>5, SaveStatements, Zenon DEF Statements, Opening, Commit
<1>6. CASE i = PathLen + 3
  BY <1>2, <1>6, SaveStatements, Zenon DEF Statements, Opening, Commit
<1> QED
  BY <1>1, <1>3, <1>4, <1>5, <1>6, Zenon

LEMMA SaveJobIsSaveRest == SaveRest(SaveJob) /\ Done(SaveJob) = 0
<1> DEFINE first == <<"insert job", "delete waypoints">>
           rows  == [i \in 1..PathLen |-> "insert waypoint"]
<1>1. SaveJob = (first \o rows) \o <<Commit>>
  BY DEF SaveJob
<1>2. /\ first \in Seq(Statements) /\ Len(first) = 2
      /\ first[1] = SaveStatement(1) /\ first[2] = SaveStatement(2)
  <2>1. SaveStatement(1) \in Statements /\ SaveStatement(2) \in Statements
    BY SaveStatements, Zenon DEF Statements
  <2>2. first = <<SaveStatement(1), SaveStatement(2)>>
    BY SaveStatements, Zenon DEF first
  <2> HIDE DEF first
  <2> QED
    BY <2>1, <2>2
<1>3. /\ rows \in Seq(Statements) /\ Len(rows) = PathLen
      /\ \A i \in 1..PathLen : rows[i] = SaveStatement(2 + i)
  <2>1. "insert waypoint" \in Statements
    BY Zenon DEF Statements
  <2>2. PICK s \in Statements : s = "insert waypoint"
    BY <2>1, Zenon
  <2>3. rows = [i \in 1..PathLen |-> s]
    BY <2>2, Zenon DEF rows
  <2>4. \A i \in 1..PathLen : SaveStatement(2 + i) = s
    <3>1. \A i \in 1..PathLen : 2 + i \in 3..PathLen + 2
      BY JobStoreAssumption
    <3> QED
      BY <2>2, <3>1, SaveStatements, Zenon
  <2> HIDE DEF rows
  <2> QED
    BY <2>3, <2>4, JobStoreAssumption
<1> HIDE DEF first, rows
<1> DEFINE both == first \o rows
<1>4. /\ both \in Seq(Statements) /\ Len(both) = PathLen + 2
      /\ both[1] = SaveStatement(1) /\ both[2] = SaveStatement(2)
      /\ \A i \in 1..PathLen : both[2 + i] = SaveStatement(2 + i)
  <2>1. 1 \in 1..Len(first) /\ 2 \in 1..Len(first) /\ 2 + PathLen = PathLen + 2
    BY <1>2, JobStoreAssumption
  <2>2. /\ both \in Seq(Statements) /\ Len(both) = Len(first) + Len(rows)
        /\ \A i \in 1..Len(first) : both[i] = first[i]
        /\ \A i \in 1..Len(rows) : both[Len(first) + i] = rows[i]
    <3>1. PICK s \in Seq(Statements), u \in Seq(Statements) : s = first /\ u = rows
      BY <1>2, <1>3
    <3>2. /\ s \o u \in Seq(Statements) /\ Len(s \o u) = Len(s) + Len(u)
          /\ \A i \in 1..Len(s) : (s \o u)[i] = s[i]
          /\ \A i \in 1..Len(u) : (s \o u)[Len(s) + i] = u[i]
      BY Concatenated
    <3> QED
      BY <3>1, <3>2, Zenon
  <2> HIDE DEF both
  <2>3. \A i \in 1..PathLen : both[2 + i] = rows[i]
    BY <1>2, <1>3, <2>2
  <2>4. both[1] = first[1] /\ both[2] = first[2]
    BY <2>1, <2>2
  <2> QED
    BY <1>2, <1>3, <2>1, <2>2, <2>3, <2>4
<1>5. SaveJob = both \o <<Commit>>
  BY <1>1 DEF both
<1> HIDE DEF both
<1>6. Commit \in Statements
  BY Zenon DEF Statements
<1>7. /\ Len(SaveJob) = PathLen + 3 /\ SaveJob[PathLen + 3] = Commit
      /\ \A i \in 1..PathLen + 2 : SaveJob[i] = both[i]
  <2>1. <<Commit>> \in Seq(Statements) /\ Len(<<Commit>>) = 1 /\ <<Commit>>[1] = Commit
    BY <1>6
  <2>2. /\ Len(SaveJob) = (PathLen + 2) + 1 /\ SaveJob[(PathLen + 2) + 1] = Commit
        /\ \A i \in 1..PathLen + 2 : SaveJob[i] = both[i]
    BY <1>4, <1>5, <2>1, Concatenated
  <2> QED
    BY <2>2, JobStoreAssumption
<1>8. ASSUME NEW i \in 1..PathLen + 3
      PROVE  SaveJob[i] = SaveStatement(i)
  <2>1. CASE i = PathLen + 3
    BY <1>7, <2>1, SaveStatements, Zenon
  <2>2. CASE i # PathLen + 3
    <3>1. i = 1 \/ i = 2 \/ (i - 2 \in 1..PathLen /\ 2 + (i - 2) = i)
      BY <2>2, JobStoreAssumption
    <3>2. i \in 1..PathLen + 2
      BY <2>2, JobStoreAssumption
    <3> QED
      BY <1>4, <1>7, <3>1, <3>2
  <2> QED
    BY <2>1, <2>2
<1>9. Done(SaveJob) = 0
  BY <1>7, JobStoreAssumption DEF Done
<1>10. \A i \in 1..PathLen + 3 : i + 0 = i
  BY JobStoreAssumption
<1> QED
  BY <1>7, <1>8, <1>9, <1>10, JobStoreAssumption DEF SaveRest

\* The statement save_job is at, and what follows it.
LEMMA SaveRestStep ==
  ASSUME NEW t \in Seq(Statements), SaveRest(t)
  PROVE  /\ Done(t) \in 0..PathLen + 2 /\ t[1] = SaveStatement(Done(t) + 1)
         /\ t[1] \in Statements
         /\ Len(t) = 1 <=> t[1] = Commit
         /\ Len(t) = 1 <=> Done(t) = PathLen + 2
         /\ t[1] \in Opening <=> Done(t) = 0
         /\ Len(t) > 1 => SaveRest(Tail(t)) /\ Done(Tail(t)) = Done(t) + 1
<1> DEFINE n == Len(t)
           d == Done(t)
<1>1. PathLen \in Nat /\ n \in 1..PathLen + 3 /\ d = PathLen + 3 - n
  BY JobStoreAssumption DEF SaveRest, Done
<1> HIDE DEF n, d
<1>2. /\ d \in 0..PathLen + 2 /\ d + 1 \in 1..PathLen + 3 /\ 1 + d = d + 1 /\ 1 \in 1..n
      /\ n = 1 <=> d + 1 = PathLen + 3
      /\ n = 1 <=> d = PathLen + 2
      /\ d = 0 <=> d + 1 = 1
  BY <1>1
<1>3. t[1] = SaveStatement(d + 1)
  <2>1. t[1] = SaveStatement(1 + d)
    BY <1>2 DEF SaveRest, n, d
  <2> QED
    BY <1>2, <2>1
<1>4. /\ t[1] \in Statements
      /\ t[1] = Commit <=> d + 1 = PathLen + 3
      /\ t[1] \in Opening <=> d + 1 = 1
  BY <1>2, <1>3, SaveStatementKinds, Zenon
<1>5. ASSUME Len(t) > 1 PROVE SaveRest(Tail(t)) /\ Done(Tail(t)) = Done(t) + 1
  <2>1. /\ Tail(t) \in Seq(Statements) /\ Len(Tail(t)) = Len(t) - 1
        /\ \A k \in 1..Len(Tail(t)) : Tail(t)[k] = t[k + 1] /\ k + 1 \in 1..Len(t)
    BY <1>5, TailShifts
  <2>2. Done(Tail(t)) = d + 1
    BY <1>1, <2>1 DEF Done, n
  <2>3. \A k \in 1..Len(Tail(t)) : Tail(t)[k] = SaveStatement(k + Done(Tail(t)))
    <3> SUFFICES ASSUME NEW k \in 1..Len(Tail(t)) PROVE Tail(t)[k] = SaveStatement(k + Done(Tail(t)))
      OBVIOUS
    <3>1. Tail(t)[k] = SaveStatement((k + 1) + Done(t))
      BY <2>1 DEF SaveRest
    <3>2. (k + 1) + d = k + Done(Tail(t))
      BY <1>1, <2>1, <2>2
    <3> QED
      BY <3>1, <3>2 DEF d
  <2>4. Len(Tail(t)) \in 1..PathLen + 3
    BY <1>1, <1>5, <2>1 DEF n
  <2> QED
    BY <2>2, <2>3, <2>4 DEF SaveRest, d
<1> QED
  BY <1>2, <1>3, <1>4, <1>5 DEF n, d

\* A transaction of two statements, at each of them.
LEMMA PairSteps ==
  ASSUME NEW s \in Statements, NEW tail \in Seq(Transactions)
  PROVE  /\ LET list == << <<s, Commit>> >> \o tail IN
              /\ list # <<>> /\ Head(list) = <<s, Commit>> /\ Tail(list) = tail
              /\ Head(Head(list)) = s /\ Len(Head(list)) = 2 /\ Tail(Head(list)) = Written
         /\ LET list == <<Written>> \o tail IN
              /\ list # <<>> /\ Tail(list) = tail
              /\ Head(Head(list)) = Commit /\ Len(Head(list)) = 1
<1>1. Commit \in Statements
  BY DEF Statements
<1>2. /\ Head(<<s, Commit>>) = s /\ Len(<<s, Commit>>) = 2 /\ Tail(<<s, Commit>>) = <<Commit>>
      /\ Head(<<Commit>>) = Commit /\ Len(<<Commit>>) = 1
  OBVIOUS
<1>3. <<s, Commit>> \in Transactions /\ <<Commit>> \in Transactions
  <2>1. <<s, Commit>> \in Seq(Statements) /\ <<s, Commit>> # <<>> /\ <<s, Commit>>[2] = Commit
    BY <1>1, PairIsSequence
  <2>2. <<Commit>> \in Seq(Statements) /\ <<Commit>> # <<>> /\ <<Commit>>[1] = Commit
    BY <1>1
  <2> QED
    BY <1>2, <2>1, <2>2 DEF Transactions
<1>4. PICK pair \in Transactions, one \in Transactions : pair = <<s, Commit>> /\ one = <<Commit>>
  BY <1>3
<1>5. /\ <<pair>> \o tail # <<>> /\ Head(<<pair>> \o tail) = pair /\ Tail(<<pair>> \o tail) = tail
      /\ <<one>> \o tail # <<>> /\ Head(<<one>> \o tail) = one /\ Tail(<<one>> \o tail) = tail
  BY Prefixed
<1> QED
  BY <1>2, <1>4, <1>5 DEF Written

LEMMA OneAndOne ==
  ASSUME NEW S, NEW a \in S, NEW b \in S
  PROVE  <<a>> \o <<b>> = <<a, b>>
<1>1. <<a>> \in Seq(S) /\ <<b>> \in Seq(S) /\ Len(<<a>>) = 1 /\ Len(<<b>>) = 1
  OBVIOUS
<1>2. PICK s \in Seq(S), t \in Seq(S) :
        s = <<a>> /\ t = <<b>> /\ Len(s) = 1 /\ Len(t) = 1 /\ s[1] = a /\ t[1] = b
  BY <1>1
<1>3. PICK u \in Seq(S) : u = <<a, b>> /\ Len(u) = 2 /\ u[1] = a /\ u[2] = b
  <2>1. <<a, b>> \in Seq(S) /\ Len(<<a, b>>) = 2
    BY PairIsSequence
  <2>2. <<a, b>>[1] = a /\ <<a, b>>[2] = b
    OBVIOUS
  <2> QED
    BY <2>1, <2>2, Zenon
<1>4. s \o t \in Seq(S) /\ Len(s \o t) = 2 /\ (s \o t)[1] = a /\ (s \o t)[2] = b
  BY <1>2
<1>5. s \o t = u
  <2>1. PICK v \in Seq(S) : v = s \o t /\ Len(v) = 2 /\ v[1] = a /\ v[2] = b
    BY <1>4
  <2>2. Len(v) = Len(u) /\ \A k \in 1..Len(u) : v[k] = u[k]
    BY <1>3, <2>1
  <2>3. v = u
    BY <2>2
  <2> QED
    BY <2>1, <2>3
<1> QED
  BY <1>2, <1>3, <1>5

LEMMA StepOfPair ==
  ASSUME NEW c \in Clients, NEW s \in Statements, NEW tail \in Seq(Transactions)
  PROVE  /\ todo[c] = << <<s, Commit>> >> \o tail =>
              ~Idle(c) /\ Stmt(c) = s /\ ~EndsOperation(c) /\ Rest(c) = <<Written>> \o tail
         /\ todo[c] = <<Written>> \o tail =>
              ~Idle(c) /\ Stmt(c) = Commit /\ EndsOperation(c) /\ Rest(c) = tail
<1>1. ASSUME todo[c] = << <<s, Commit>> >> \o tail
      PROVE  ~Idle(c) /\ Stmt(c) = s /\ ~EndsOperation(c) /\ Rest(c) = <<Written>> \o tail
  <2> DEFINE list == << <<s, Commit>> >> \o tail
  <2>1. /\ list # <<>> /\ Tail(list) = tail /\ Head(list) = <<s, Commit>>
        /\ Head(Head(list)) = s /\ Len(Head(list)) = 2 /\ Tail(Head(list)) = Written
    BY PairSteps
  <2>2. todo[c] = list
    BY <1>1
  <2> HIDE DEF list
  <2>3. /\ todo[c] # <<>> /\ Tail(todo[c]) = tail
        /\ Head(Head(todo[c])) = s /\ Len(Head(todo[c])) = 2 /\ Tail(Head(todo[c])) = Written
    BY <2>1, <2>2, Zenon
  <2>4. 2 > 1 /\ 2 # 1
    OBVIOUS
  <2> QED
    BY <2>3, <2>4, Zenon DEF Idle, Stmt, EndsOperation, Rest
<1>2. ASSUME todo[c] = <<Written>> \o tail
      PROVE  ~Idle(c) /\ Stmt(c) = Commit /\ EndsOperation(c) /\ Rest(c) = tail
  <2>1. /\ todo[c] # <<>> /\ Tail(todo[c]) = tail
        /\ Head(Head(todo[c])) = Commit /\ Len(Head(todo[c])) = 1
    BY <1>2, PairSteps, Zenon
  <2>2. ~(1 > 1)
    OBVIOUS
  <2> QED
    BY <2>1, <2>2, Zenon DEF Idle, Stmt, EndsOperation, Rest
<1> QED
  BY <1>1, <1>2

\* What can be left to do about a saved job.
LEMMA SavedLists ==
  /\ "insert image" \in Statements /\ "insert measurement" \in Statements
  /\ "update job" \in Statements /\ "delete job" \in Statements /\ Commit \in Statements
  /\ <<>> \in Seq(Transactions) /\ Counting \in Seq(Transactions)
  /\ <<SaveImage>> = << <<"insert image", Commit>> >> \o <<>>
  /\ Measuring = << <<"insert measurement", Commit>> >> \o Counting
  /\ Measured = <<Written>> \o Counting
  /\ Counting = << <<"update job", Commit>> >> \o <<>>
  /\ <<Delete>> = << <<"delete job", Commit>> >> \o <<>>
  /\ <<Written>> = <<Written>> \o <<>>
<1>1. "insert image" \in Statements /\ "insert measurement" \in Statements
      /\ "update job" \in Statements /\ "delete job" \in Statements /\ Commit \in Statements
  BY Zenon DEF Statements
<1>2. <<>> \in Seq(Transactions)
  OBVIOUS
<1>3. Counting \in Seq(Transactions)
  <2>1. UpdateState \in Transactions
    BY Programs, Zenon DEF Later
  <2> QED
    BY <2>1 DEF Counting
<1>4. \A t \in Transactions : << t >> \o <<>> = << t >>
  OBVIOUS
<1>5. ASSUME NEW t \in Transactions, NEW u \in Transactions
      PROVE  << t >> \o <<u>> = << t, u >>
  BY OneAndOne
<1>6. /\ SaveImage \in Transactions /\ SaveMeasurement \in Transactions
      /\ UpdateState \in Transactions /\ Delete \in Transactions
  BY Programs, Zenon DEF Later
<1>7. Written \in Transactions
  <2>1. PICK end \in Statements : end = Commit
    BY <1>1, Zenon
  <2>2. <<end>> \in Seq(Statements) /\ <<end>> # <<>> /\ <<end>>[1] = end /\ Len(<<end>>) = 1
    OBVIOUS
  <2> QED
    BY <2>1, <2>2, Zenon DEF Written, Transactions
<1>8. /\ <<SaveImage>> = << <<"insert image", Commit>> >> \o <<>>
      /\ Measuring = << <<"insert measurement", Commit>> >> \o Counting
      /\ Measured = <<Written>> \o Counting
      /\ Counting = << <<"update job", Commit>> >> \o <<>>
      /\ <<Delete>> = << <<"delete job", Commit>> >> \o <<>>
      /\ <<Written>> = <<Written>> \o <<>>
  BY <1>4, <1>5, <1>6, <1>7, Zenon
     DEF Measuring, Measured, Counting, SaveImage, SaveMeasurement, UpdateState, Delete
<1> QED
  BY <1>1, <1>2, <1>3, <1>8, Zenon

\* Each of them but a lone commit starts a transaction or ends one.
LEMMA FirstStatements ==
  /\ \A list \in {<<SaveImage>>, Measuring, Counting, <<Delete>>} :
       list # <<>> /\ Head(Head(list)) \in Opening
  /\ \A list \in {Measured, <<Written>>} : list # <<>>
<1>1. <<SaveImage>> # <<>> /\ Head(Head(<<SaveImage>>)) = "insert image"
  BY SavedLists, PairSteps, Zenon
<1>2. Measuring # <<>> /\ Head(Head(Measuring)) = "insert measurement"
  BY SavedLists, PairSteps, Zenon
<1>3. Counting # <<>> /\ Head(Head(Counting)) = "update job"
  BY SavedLists, PairSteps, Zenon
<1>4. <<Delete>> # <<>> /\ Head(Head(<<Delete>>)) = "delete job"
  BY SavedLists, PairSteps, Zenon
<1>5. Measured # <<>> /\ <<Written>> # <<>>
  BY SavedLists, PairSteps, Zenon
<1> QED
  BY <1>1, <1>2, <1>3, <1>4, <1>5, Zenon DEF Opening

\* Each step through them.
LEMMA SavedSteps ==
  ASSUME NEW c \in Clients
  PROVE  /\ todo[c] = <<SaveImage>> => ~Idle(c) /\ Stmt(c) = "insert image" /\ Rest(c) = <<Written>>
         /\ todo[c] = Measuring => ~Idle(c) /\ Stmt(c) = "insert measurement" /\ Rest(c) = Measured
         /\ todo[c] = Measured => ~Idle(c) /\ Stmt(c) = Commit /\ Rest(c) = Counting
         /\ todo[c] = Counting => ~Idle(c) /\ Stmt(c) = "update job" /\ Rest(c) = <<Written>>
         /\ todo[c] = <<Delete>> => ~Idle(c) /\ Stmt(c) = "delete job" /\ Rest(c) = <<Written>>
         /\ todo[c] = <<Written>> => ~Idle(c) /\ Stmt(c) = Commit /\ Rest(c) = <<>>
         /\ todo[c] \in {<<SaveImage>>, Measuring, Counting, <<Delete>>} => ~EndsOperation(c)
         /\ todo[c] \in {Measured, <<Written>>} => EndsOperation(c)
<1>1. todo[c] = <<SaveImage>> =>
        ~Idle(c) /\ Stmt(c) = "insert image" /\ ~EndsOperation(c) /\ Rest(c) = <<Written>>
  BY SavedLists, StepOfPair, Zenon
<1>2. todo[c] = Measuring =>
        ~Idle(c) /\ Stmt(c) = "insert measurement" /\ ~EndsOperation(c) /\ Rest(c) = Measured
  BY SavedLists, StepOfPair, Zenon
<1>3. todo[c] = Measured => ~Idle(c) /\ Stmt(c) = Commit /\ EndsOperation(c) /\ Rest(c) = Counting
  BY SavedLists, StepOfPair, Zenon
<1>4. todo[c] = Counting =>
        ~Idle(c) /\ Stmt(c) = "update job" /\ ~EndsOperation(c) /\ Rest(c) = <<Written>>
  BY SavedLists, StepOfPair, Zenon
<1>5. todo[c] = <<Delete>> =>
        ~Idle(c) /\ Stmt(c) = "delete job" /\ ~EndsOperation(c) /\ Rest(c) = <<Written>>
  BY SavedLists, StepOfPair, Zenon
<1>6. todo[c] = <<Written>> => ~Idle(c) /\ Stmt(c) = Commit /\ EndsOperation(c) /\ Rest(c) = <<>>
  BY SavedLists, StepOfPair, Zenon
<1> QED
  BY <1>1, <1>2, <1>3, <1>4, <1>5, <1>6, Zenon

\* The same for a job that is being saved.
LEMMA SavingSteps ==
  ASSUME Types, Forms, NEW c \in Clients, Saving(c)
  PROVE  LET t == Head(todo[c]) IN
         /\ t \in Seq(Statements) /\ SaveRest(t) /\ Stmt(c) = t[1]
         /\ EndsOperation(c) <=> Stmt(c) = Commit
         /\ EndsOperation(c) => Rest(c) \in {<<>>, <<SaveImage>>}
         /\ ~EndsOperation(c) =>
              /\ Rest(c) # <<>> /\ Head(Rest(c)) = Tail(t) /\ Tail(Rest(c)) = Tail(todo[c])
              /\ SaveRest(Tail(t)) /\ Done(Tail(t)) = Done(t) + 1
              /\ Tail(t) \in Seq(Statements) /\ Head(Tail(t)) \notin Opening
<1>1. /\ todo[c] \in Seq(Transactions) /\ todo[c] # <<>>
      /\ SaveRest(Head(todo[c])) /\ Tail(todo[c]) \in {<<>>, <<SaveImage>>}
  BY DEF Types, Forms, Form, Saving, Idle
<1>2. PICK t \in Transactions : t = Head(todo[c])
  BY <1>1
<1>3. t \in Seq(Statements) /\ SaveRest(t) /\ Head(t) = t[1]
  BY <1>1, <1>2 DEF Transactions
<1>4. /\ Done(t) \in 0..PathLen + 2
      /\ Len(t) = 1 <=> t[1] = Commit
      /\ Len(t) > 1 => SaveRest(Tail(t)) /\ Done(Tail(t)) = Done(t) + 1
      /\ Len(t) > 1 <=> Len(t) # 1
  <2>1. Len(t) > 1 <=> Len(t) # 1
    <3> DEFINE n == Len(t)
    <3>1. PathLen \in Nat /\ n \in 1..PathLen + 3
      BY <1>3, JobStoreAssumption DEF SaveRest
    <3> HIDE DEF n
    <3>2. n > 1 <=> n # 1
      BY <3>1
    <3> QED
      BY <3>2 DEF n
  <2> QED
    BY <1>3, <2>1, SaveRestStep, Zenon
<1>5. Tail(todo[c]) \in Seq(Transactions)
  BY <1>1
<1>6. ASSUME Len(t) > 1
      PROVE  /\ Rest(c) # <<>> /\ Head(Rest(c)) = Tail(t) /\ Tail(Rest(c)) = Tail(todo[c])
             /\ Tail(t) \in Seq(Statements) /\ Head(Tail(t)) \notin Opening
  <2>1. Rest(c) = <<Tail(t)>> \o Tail(todo[c])
    BY <1>2, <1>6 DEF Rest
  <2>2. PICK u \in Transactions : u = Tail(t)
    BY <1>6, TailOfTransaction
  <2>3. Rest(c) # <<>> /\ Head(Rest(c)) = u /\ Tail(Rest(c)) = Tail(todo[c])
    BY <1>5, <2>1, <2>2, Prefixed
  <2>4. u \in Seq(Statements) /\ SaveRest(u) /\ Done(u) = Done(t) + 1 /\ Head(u) = u[1]
    BY <1>4, <1>6, <2>2 DEF Transactions
  <2>5. Done(u) # 0
    BY <1>4, <2>4
  <2>6. Head(u) \notin Opening
    BY <2>4, <2>5, SaveRestStep, Zenon
  <2> QED
    BY <2>2, <2>3, <2>4, <2>6
<1>7. ~(Len(t) > 1) => Rest(c) = Tail(todo[c])
  BY <1>2 DEF Rest
<1>8. Stmt(c) = t[1] /\ (EndsOperation(c) <=> Len(t) = 1)
  BY <1>2, <1>3 DEF Stmt, EndsOperation
<1> QED
  BY <1>1, <1>2, <1>3, <1>4, <1>6, <1>7, <1>8, Zenon

-----------------------------------------------------------------------------
(* The control of the clients.                                             *)

\* The lists by stage.
LEMMA LeftByStage ==
  /\ \A s \in Stages : <<>> \in Left(s)
  /\ Left("request") = {<<>>, <<SaveImage>>, <<Delete>>, <<Written>>}
  /\ Left("run") = {<<>>, Counting, <<Written>>}
  /\ Left("loop") = {<<>>, Measuring, Measured, Counting, <<Written>>}
  /\ Left("final") = {<<>>, Counting, <<Written>>}
  /\ \A s \in {"except"} \cup Pruning : Left(s) = {<<>>}
BY Zenon DEF Left, Stages, Loop, Pruning

\* A statement leads from one of them to another one of the same stage, which opens a
\* transaction unless the one before is still open.
LEMMA LeftSteps ==
  ASSUME NEW c \in Clients, NEW s \in Stages, todo[c] \in Left(s), ~Idle(c)
  PROVE  /\ Rest(c) \in Left(s)
         /\ EndsOperation(c) => Rest(c) \in {<<>>, Counting}
         /\ s \in {"request", "run", "loop", "final"}
<1>1. todo[c] # <<>>
  BY DEF Idle
<1>2. s \in {"request", "run", "loop", "final"}
  BY <1>1, LeftByStage, Zenon DEF Stages, Loop, Pruning
<1>3. CASE s = "request"
  BY <1>1, <1>3, LeftByStage, SavedSteps, Zenon
<1>4. CASE s = "run"
  BY <1>1, <1>4, LeftByStage, SavedSteps, Zenon
<1>5. CASE s = "loop"
  BY <1>1, <1>5, LeftByStage, SavedSteps, Zenon
<1>6. CASE s = "final"
  BY <1>1, <1>6, LeftByStage, SavedSteps, Zenon
<1> QED
  BY <1>2, <1>3, <1>4, <1>5, <1>6, Zenon

LEMMA ClientFrame ==
  ASSUME NEW d \in Clients, todo'[d] = todo[d], target'[d] = target[d], stage'[d] = stage[d],
         target[d] \in saved' <=> target[d] \in saved
  PROVE  /\ Idle(d)' <=> Idle(d)
         /\ Saving(d)' <=> Saving(d)
         /\ Open(d)' <=> Open(d)
         /\ Form(d) => Form(d)'
<1>1. (Idle(d)' <=> Idle(d)) /\ (Saving(d)' <=> Saving(d)) /\ (Open(d)' <=> Open(d))
  BY Zenon DEF Idle, Saving, Open, Stmt
<1>2. Left(stage[d])' = Left(stage[d])
  BY Zenon DEF Left, Written, Measuring, Measured, Counting
<1> QED
  BY <1>1, <1>2, Zenon DEF Form

\* A step of c leaves the others where they are.
LEMMA ControlFrame ==
  ASSUME ControlInv, NEW c \in Clients,
         \A d \in Clients \ {c} :
           /\ todo'[d] = todo[d] /\ target'[d] = target[d] /\ stage'[d] = stage[d]
           /\ target[d] \in saved' <=> target[d] \in saved,
         Form(c)',
         \A d \in Clients \ {c} :
           /\ Saving(c)' => target[d] # target'[c]
           /\ Saving(d) => target'[c] # target[d]
           /\ stage'[c] # "request" /\ stage[d] # "request" => target[d] # target'[c]
           /\ Open(d) => lock' = d,
         lock' \in Clients \cup {NoOne}, Open(c)' => lock' = c
  PROVE  ControlInv'
<1>1. ASSUME NEW d \in Clients, d # c
      PROVE  /\ target'[d] = target[d] /\ stage'[d] = stage[d]
             /\ Saving(d)' <=> Saving(d)
             /\ Open(d)' <=> Open(d)
             /\ Form(d)'
  BY <1>1, ClientFrame, Zenon DEF ControlInv, Forms
<1>2. Forms'
  BY <1>1, Zenon DEF Forms
<1>3. Locks'
  BY <1>1, Zenon DEF Locks
<1>4. Alone'
  <2>1. ASSUME NEW a \in Clients, NEW b \in Clients, a # b
        PROVE  /\ Saving(a)' => target'[b] # target'[a]
               /\ stage'[a] # "request" /\ stage'[b] # "request" => target'[b] # target'[a]
    <3>1. CASE a = c
      BY <1>1, <2>1, <3>1, Zenon
    <3>2. CASE b = c
      BY <1>1, <2>1, <3>2, Zenon
    <3>3. CASE a # c /\ b # c
      BY <1>1, <2>1, <3>3, Zenon DEF ControlInv, Alone
    <3> QED
      BY <3>1, <3>2, <3>3
  <2> QED
    BY <2>1, Zenon DEF Alone
<1> QED
  BY <1>2, <1>3, <1>4 DEF ControlInv

\* When c takes up nothing new, no job gets a second client.
LEMMA SameTargets ==
  ASSUME Inv, ControlInv, NEW c \in Clients, target'[c] \in {None, target[c]},
         target'[c] = None => ~Saving(c)' /\ stage'[c] = "request",
         Saving(c)' => Saving(c), stage'[c] # "request" => stage[c] # "request"
  PROVE  \A d \in Clients \ {c} :
           /\ Saving(c)' => target[d] # target'[c]
           /\ Saving(d) => target'[c] # target[d]
           /\ stage'[c] # "request" /\ stage[d] # "request" => target[d] # target'[c]
<1> SUFFICES ASSUME NEW d \in Clients \ {c}
             PROVE  /\ Saving(c)' => target[d] # target'[c]
                    /\ Saving(d) => target'[c] # target[d]
                    /\ stage'[c] # "request" /\ stage[d] # "request" => target[d] # target'[c]
  OBVIOUS
<1>1. /\ Saving(c) => target[d] # target[c]
      /\ Saving(d) => target[c] # target[d]
      /\ stage[c] # "request" /\ stage[d] # "request" => target[d] # target[c]
  BY DEF ControlInv, Alone
<1>2. Saving(d) => target[d] # None
  BY DEF Inv, Work, Saving
<1> QED
  BY <1>1, <1>2, Zenon

\* Nobody else has a transaction open when c may run, nor when the lock is free.
LEMMA OthersClosed ==
  ASSUME ControlInv, NEW c \in Clients, lock \in {NoOne, c}
  PROVE  \A d \in Clients \ {c} : ~Open(d)
BY JobStoreAssumption DEF ControlInv, Locks

LEMMA NobodyOpen ==
  ASSUME ControlInv, LockFree
  PROVE  \A d \in Clients : ~Open(d)
BY JobStoreAssumption DEF ControlInv, Locks, LockFree

\* What the lists of new operations begin with.
LEMMA NewLists ==
  ASSUME Inv, NEW c \in Clients, NEW list \in {<<SaveImage>>, Measuring, Counting, <<Delete>>},
         todo'[c] = list
  PROVE  ~Idle(c)' /\ ~Open(c)'
<1>1. list # <<>> /\ Head(Head(list)) \in Opening
  BY FirstStatements, Zenon
<1> QED
  BY <1>1, Zenon DEF Idle, Open, Stmt

LEMMA ControlCreate ==
  ASSUME Inv, ControlInv, NEW c \in Clients, CreateJob(c)
  PROVE  ControlInv' /\ ~Open(c)'
<1>1. PICK image \in {<<>>, <<SaveImage>>} : Start(c, created', <<SaveJob>> \o image)
  BY DEF CreateJob
<1>2. /\ todo \in [Clients -> Seq(Transactions)] /\ target \in [Clients -> 0..created]
      /\ stage \in [Clients -> Stages] /\ saved \subseteq 1..created /\ created \in Nat
  BY JobStoreAssumption DEF Inv, Types
<1>3. PICK t \in Transactions : t = SaveJob
  BY Programs
<1>4. image \in Seq(Transactions)
  <2>1. SaveImage \in Transactions
    BY Programs, Zenon DEF Later
  <2>2. <<>> \in Seq(Transactions) /\ <<SaveImage>> \in Seq(Transactions)
    BY <2>1
  <2> QED
    BY <2>2, Zenon
<1>5. /\ <<t>> \o image # <<>> /\ Head(<<t>> \o image) = t /\ Tail(<<t>> \o image) = image
  BY <1>4, Prefixed
<1>6. /\ created' = created + 1 /\ UNCHANGED <<lock, saved, stage>>
      /\ stage[c] = "request"
      /\ todo'[c] = <<t>> \o image /\ target'[c] = created'
      /\ \A d \in Clients \ {c} : todo'[d] = todo[d] /\ target'[d] = target[d]
  BY <1>1, <1>2, <1>3 DEF Start, Call, CreateJob, history, thread
<1>7. /\ created' \notin saved' /\ created' # None
      /\ \A d \in Clients : target[d] # created'
  BY <1>2, <1>6 DEF None
<1>8. /\ ~Idle(c)' /\ Saving(c)' /\ stage'[c] = "request"
  BY <1>5, <1>6, <1>7, Zenon DEF Idle, Saving
<1>9. Form(c)'
  <2>1. SaveRest(Head(todo'[c])) /\ Tail(todo'[c]) \in {<<>>, <<SaveImage>>}
    BY <1>3, <1>5, <1>6, SaveJobIsSaveRest, Zenon
  <2> QED
    BY <1>8, <2>1, Zenon DEF Form
<1>10. ~Open(c)'
  <2>1. t[1] \in Opening /\ Head(t) = t[1]
    <3>1. t \in Seq(Statements) /\ SaveRest(t) /\ Done(t) = 0
      BY <1>3, SaveJobIsSaveRest DEF Transactions
    <3>2. t[1] \in Opening
      BY <3>1, SaveRestStep, Zenon
    <3> QED
      BY <3>1, <3>2
  <2>2. Head(Head(todo'[c])) \in Opening
    BY <1>5, <1>6, <2>1, Zenon
  <2> QED
    BY <2>2, Zenon DEF Open, Stmt
<1>11. lock \in Clients \cup {NoOne} /\ \A d \in Clients : Open(d) => lock = d
  BY DEF ControlInv, Locks
<1>12. ASSUME NEW d \in Clients \ {c}
       PROVE  /\ todo'[d] = todo[d] /\ target'[d] = target[d] /\ stage'[d] = stage[d]
              /\ target[d] \in saved' <=> target[d] \in saved
              /\ target'[c] # target[d]
  BY <1>6, <1>7
<1> QED
  BY <1>6, <1>8, <1>9, <1>10, <1>11, <1>12, ControlFrame

\* The other operations are about saved jobs.
LEMMA ControlCalls ==
  ASSUME Inv, ControlInv, NEW c \in Clients,
         RunJob(c) \/ DeleteJob(c) \/ RecordWaypoint(c) \/ StoreOutcome(c)
  PROVE  ControlInv' /\ ~Open(c)'
<1>1. /\ todo \in [Clients -> Seq(Transactions)] /\ target \in [Clients -> 0..created]
      /\ stage \in [Clients -> Stages] /\ saved \subseteq 1..created /\ started \subseteq saved
  BY DEF Inv, Types
<1>2. PICK list \in {Measuring, Counting, <<Delete>>} :
        /\ todo'[c] = list /\ list \in Left(stage'[c])
        /\ target'[c] \in saved
        /\ \A d \in Clients \ {c} :
             todo'[d] = todo[d] /\ target'[d] = target[d] /\ stage'[d] = stage[d]
        /\ UNCHANGED <<lock, saved>>
        /\ \/ stage'[c] = "request"
           \/ stage[c] # "request" /\ target'[c] = target[c]
           \/ target'[c] \notin started
  <2>1. CASE RunJob(c)
    <3>1. PICK j \in saved \ started : Start(c, j, Counting)
      BY <2>1 DEF RunJob, Counting
    <3>2. /\ todo'[c] = Counting /\ target'[c] = j /\ stage'[c] = "run"
          /\ \A d \in Clients \ {c} :
               todo'[d] = todo[d] /\ target'[d] = target[d] /\ stage'[d] = stage[d]
          /\ UNCHANGED <<lock, saved>>
      BY <1>1, <2>1, <3>1 DEF Start, Call, RunJob
    <3>3. Counting \in Left(stage'[c])
      BY <3>2, LeftByStage, Zenon
    <3> QED
      BY <3>1, <3>2, <3>3
  <2>2. CASE DeleteJob(c)
    <3>1. PICK j \in saved : Start(c, j, <<Delete>>)
      BY <2>2 DEF DeleteJob
    <3>2. /\ todo'[c] = <<Delete>> /\ target'[c] = j /\ stage'[c] = "request"
          /\ \A d \in Clients \ {c} :
               todo'[d] = todo[d] /\ target'[d] = target[d] /\ stage'[d] = stage[d]
          /\ UNCHANGED <<lock, saved>>
      BY <1>1, <2>2, <3>1 DEF Start, Call, DeleteJob, thread, history
    <3>3. <<Delete>> \in Left(stage'[c])
      BY <3>2, LeftByStage, Zenon
    <3> QED
      BY <3>1, <3>2, <3>3
  <2>3. CASE RecordWaypoint(c)
    <3>1. stage[c] # "request"
      BY <2>3 DEF RecordWaypoint, Loop
    <3>2. /\ todo'[c] = Measuring /\ target' = target /\ stage'[c] = "loop"
          /\ \A d \in Clients \ {c} : todo'[d] = todo[d] /\ stage'[d] = stage[d]
          /\ UNCHANGED <<lock, saved>>
      BY <1>1, <2>3 DEF Call, RecordWaypoint, history, Measuring
    <3>3. Measuring \in Left(stage'[c])
      BY <3>2, LeftByStage, Zenon
    <3> QED
      BY <3>1, <3>2, <3>3, ThreadJobs
  <2>4. CASE StoreOutcome(c)
    <3>1. stage[c] # "request"
      BY <2>4 DEF StoreOutcome, Loop
    <3>2. /\ todo'[c] = Counting /\ target' = target /\ stage'[c] = "final"
          /\ \A d \in Clients \ {c} : todo'[d] = todo[d] /\ stage'[d] = stage[d]
          /\ UNCHANGED <<lock, saved>>
      BY <1>1, <2>4 DEF Call, StoreOutcome, history, Counting
    <3>3. Counting \in Left(stage'[c])
      BY <3>2, LeftByStage, Zenon
    <3> QED
      BY <3>1, <3>2, <3>3, ThreadJobs
  <2> QED
    BY <2>1, <2>2, <2>3, <2>4
<1>3. ~Idle(c)' /\ ~Open(c)'
  BY <1>2, NewLists
<1>4. ~Saving(c)' /\ Form(c)'
  BY <1>2, <1>3, Zenon DEF Saving, Form
<1>5. ASSUME NEW d \in Clients \ {c}
      PROVE  /\ Saving(d) => target'[c] # target[d]
             /\ stage'[c] # "request" /\ stage[d] # "request" => target[d] # target'[c]
  <2>1. Saving(d) => target[d] \notin saved
    BY DEF Saving
  <2>2. stage[d] # "request" => target[d] \in started
    BY DEF Inv, Work
  <2>3. stage[c] # "request" /\ stage[d] # "request" => target[d] # target[c]
    BY DEF ControlInv, Alone
  <2> QED
    BY <1>2, <2>1, <2>2, <2>3, Zenon
<1>6. lock \in Clients \cup {NoOne} /\ \A d \in Clients : Open(d) => lock = d
  BY DEF ControlInv, Locks
<1> QED
  BY <1>2, <1>3, <1>4, <1>5, <1>6, ControlFrame

\* What a statement that succeeds does to the control of its client.
LEMMA ControlOfExecute ==
  ASSUME Inv, ControlInv, NEW c \in Clients, Execute(c)
  PROVE  /\ ~Idle(c) /\ lock \in {NoOne, c} /\ target[c] \in Jobs /\ target[c] # None
         /\ todo'[c] = Rest(c)
         /\ target'[c] = (IF Rest(c) = <<>> /\ stage[c] = "request" THEN None ELSE target[c])
         /\ stage' = stage
         /\ \A d \in Clients \ {c} : todo'[d] = todo[d] /\ target'[d] = target[d]
         /\ saved' = (IF EndsOperation(c) THEN saved \cup {target[c]} ELSE saved)
         /\ lock' = (IF EndsOperation(c) THEN NoOne ELSE c)
         /\ \A d \in Clients \ {c} : target[d] \in saved' <=> target[d] \in saved
         /\ None \notin saved'
<1>1. /\ ~Idle(c) /\ lock \in {NoOne, c} /\ stage' = stage
      /\ todo' = [todo EXCEPT ![c] = Rest(c)]
      /\ target' = [target EXCEPT ![c] =
                      IF Rest(c) = <<>> /\ stage[c] = "request" THEN None ELSE target[c]]
      /\ saved' = IF EndsOperation(c) THEN saved \cup {target[c]} ELSE saved
      /\ lock' = IF EndsOperation(c) THEN NoOne ELSE c
  BY DEF Execute, MayRun, Finish, thread
<1>2. /\ target \in [Clients -> 0..created] /\ created \in 0..MaxCreated
      /\ saved \subseteq 1..created /\ todo \in [Clients -> Seq(Transactions)]
  BY DEF Inv, Types
<1>3. target[c] \in Jobs /\ target[c] # None
  <2>1. target[c] # 0
    BY <1>1 DEF Inv, Work, None
  <2> QED
    BY <1>2, <2>1, JobStoreAssumption DEF Jobs, None
<1>4. \A d \in Clients \ {c} : target[d] \in saved' <=> target[d] \in saved
  <2>1. CASE target[c] \in saved
    BY <1>1, <2>1
  <2>2. CASE target[c] \notin saved
    <3>1. Saving(c)
      BY <1>1, <2>2 DEF Saving
    <3>2. \A d \in Clients \ {c} : target[d] # target[c]
      BY <3>1 DEF ControlInv, Alone
    <3> QED
      BY <1>1, <3>2
  <2> QED
    BY <2>1, <2>2
<1>5. None \notin saved'
  BY <1>1, <1>2, <1>3 DEF None
<1> QED
  BY <1>1, <1>2, <1>3, <1>4, <1>5

\* Its list stays in form, and it gives the lock back only between transactions.
LEMMA FormOfExecute ==
  ASSUME Inv, ControlInv, NEW c \in Clients, Execute(c)
  PROVE  /\ Form(c)'
         /\ Saving(c)' => Saving(c) /\ target'[c] = target[c]
         /\ Open(c)' => lock' = c
<1>1. /\ ~Idle(c) /\ target[c] # None /\ None \notin saved'
      /\ todo'[c] = Rest(c)
      /\ target'[c] = (IF Rest(c) = <<>> /\ stage[c] = "request" THEN None ELSE target[c])
      /\ saved' = (IF EndsOperation(c) THEN saved \cup {target[c]} ELSE saved)
      /\ lock' = (IF EndsOperation(c) THEN NoOne ELSE c)
      /\ stage' = stage
  BY ControlOfExecute, Zenon
<1>2. stage[c] \in Stages /\ (stage[c] # "request" => target[c] \in saved)
  BY ThreadJobs DEF Inv, Types
<1>3. ASSUME target[c] \in saved', Rest(c) \in Left(stage[c]),
             EndsOperation(c) => Rest(c) \in {<<>>, Counting, <<SaveImage>>}
      PROVE  Form(c)' /\ ~Saving(c)' /\ (Open(c)' => lock' = c)
  <2>1. ~Saving(c)'
    <3>1. CASE Rest(c) = <<>>
      BY <1>1, <3>1, Zenon DEF Saving, Idle
    <3>2. CASE Rest(c) # <<>>
      BY <1>1, <1>3, <3>2, Zenon DEF Saving
    <3> QED
      BY <3>1, <3>2
  <2>2. Idle(c)' /\ stage'[c] = "request" => target'[c] = None
    BY <1>1, Zenon DEF Idle
  <2>3. Left(stage[c])' = Left(stage[c])
    BY <1>1, Zenon DEF Left, Written, Measuring, Measured, Counting
  <2>4. Form(c)'
    BY <1>1, <1>3, <2>1, <2>2, <2>3, Zenon DEF Form
  <2>5. EndsOperation(c) => ~Open(c)'
    <3>1. Rest(c) = <<>> => ~Open(c)'
      BY <1>1, Zenon DEF Open, Idle
    <3>2. Rest(c) \in {Counting, <<SaveImage>>} => ~Open(c)'
      BY <1>1, NewLists
    <3> QED
      BY <1>3, <3>1, <3>2
  <2> QED
    BY <1>1, <2>1, <2>4, <2>5, Zenon
<1>4. CASE Saving(c)
  <2> DEFINE t == Head(todo[c])
  <2>1. /\ EndsOperation(c) => Rest(c) \in {<<>>, <<SaveImage>>}
        /\ ~EndsOperation(c) =>
             /\ Rest(c) # <<>> /\ Head(Rest(c)) = Tail(t) /\ Tail(Rest(c)) = Tail(todo[c])
             /\ SaveRest(Tail(t))
    BY <1>4, SavingSteps, Zenon DEF Inv, ControlInv
  <2>2. stage[c] = "request"
    BY <1>2, <1>4 DEF Saving
  <2>3. CASE EndsOperation(c)
    <3>1. target[c] \in saved'
      BY <1>1, <2>3
    <3>2. Rest(c) \in Left(stage[c])
      BY <2>1, <2>2, <2>3, LeftByStage, Zenon
    <3> QED
      BY <1>3, <2>1, <2>3, <3>1, <3>2, Zenon
  <2>4. CASE ~EndsOperation(c)
    <3>1. todo'[c] = Rest(c) /\ target'[c] = target[c] /\ saved' = saved /\ lock' = c
      BY <1>1, <2>1, <2>4, Zenon
    <3>2. ~Idle(c)' /\ SaveRest(Head(todo'[c])) /\ Tail(todo'[c]) \in {<<>>, <<SaveImage>>}
      <4>1. Tail(todo[c]) \in {<<>>, <<SaveImage>>}
        BY <1>4, Zenon DEF ControlInv, Forms, Form
      <4> QED
        BY <2>1, <2>4, <3>1, <4>1, Zenon DEF Idle
    <3>3. Saving(c)'
      BY <1>4, <3>1, <3>2, Zenon DEF Saving
    <3> QED
      BY <1>4, <3>1, <3>2, <3>3, Zenon DEF Form
  <2> QED
    BY <2>3, <2>4
<1>5. CASE ~Saving(c)
  <2>1. target[c] \in saved /\ saved' = saved
    BY <1>1, <1>5 DEF Saving
  <2>2. todo[c] \in Left(stage[c])
    BY <1>5 DEF ControlInv, Forms, Form
  <2>3. /\ Rest(c) \in Left(stage[c])
        /\ EndsOperation(c) => Rest(c) \in {<<>>, Counting}
    BY <1>1, <1>2, <2>2, LeftSteps
  <2> QED
    BY <1>3, <2>1, <2>3, Zenon
<1> QED
  BY <1>4, <1>5

LEMMA ControlExecute ==
  ASSUME Inv, ControlInv, NEW c \in Clients, Execute(c)
  PROVE  ControlInv'
<1>1. /\ lock \in {NoOne, c} /\ stage' = stage /\ todo'[c] = Rest(c)
      /\ target'[c] = (IF Rest(c) = <<>> /\ stage[c] = "request" THEN None ELSE target[c])
      /\ target[c] # None
      /\ lock' = (IF EndsOperation(c) THEN NoOne ELSE c)
      /\ \A d \in Clients \ {c} :
           /\ todo'[d] = todo[d] /\ target'[d] = target[d]
           /\ target[d] \in saved' <=> target[d] \in saved
  BY ControlOfExecute, Zenon
<1>2. /\ Form(c)'
      /\ Saving(c)' => Saving(c) /\ target'[c] = target[c]
      /\ Open(c)' => lock' = c
  BY FormOfExecute, Zenon
<1>3. /\ target'[c] \in {None, target[c]}
      /\ target'[c] = None => ~Saving(c)' /\ stage'[c] = "request"
      /\ stage'[c] # "request" => stage[c] # "request"
  BY <1>1, <1>2, Zenon
<1>4. \A d \in Clients \ {c} :
        /\ Saving(c)' => target[d] # target'[c]
        /\ Saving(d) => target'[c] # target[d]
        /\ stage'[c] # "request" /\ stage[d] # "request" => target[d] # target'[c]
  BY <1>2, <1>3, SameTargets
<1>5. \A d \in Clients \ {c} : ~Open(d)
  BY <1>1, OthersClosed
<1>6. lock' \in Clients \cup {NoOne}
  BY <1>1
<1>7. ASSUME NEW d \in Clients \ {c}
      PROVE  /\ todo'[d] = todo[d] /\ target'[d] = target[d] /\ stage'[d] = stage[d]
             /\ target[d] \in saved' <=> target[d] \in saved
  BY <1>1
<1> QED
  BY <1>2, <1>4, <1>5, <1>6, <1>7, ControlFrame

\* A step after which c has nothing left to do, with nobody's transaction open.
LEMMA ControlIdle ==
  ASSUME Inv, ControlInv, NEW c \in Clients, lock \in {NoOne, c}, saved' = saved,
         todo'[c] = <<>>, lock' = NoOne,
         target'[c] = (IF stage'[c] = "request" THEN None ELSE target[c]),
         stage'[c] # "request" => stage[c] # "request",
         \A d \in Clients \ {c} :
           todo'[d] = todo[d] /\ target'[d] = target[d] /\ stage'[d] = stage[d],
         stage'[c] \in Stages
  PROVE  ControlInv'
<1>1. Idle(c)' /\ ~Saving(c)' /\ ~Open(c)'
  BY DEF Idle, Saving, Open
<1>2. Form(c)'
  <2>1. <<>> \in Left(stage'[c])
    BY LeftByStage
  <2>2. Left(stage'[c]) = Left(stage[c])'
    BY Zenon DEF Left, Written, Measuring, Measured, Counting
  <2> QED
    BY <1>1, <2>1, <2>2, Zenon DEF Form
<1>3. \A d \in Clients \ {c} : ~Open(d)
  BY OthersClosed
<1>4. target'[c] \in {None, target[c]}
  BY Zenon
<1>5. target'[c] = None => stage'[c] = "request"
  <2>1. stage[c] # "request" => target[c] # None
    BY ThreadJobs DEF Jobs, None
  <2> QED
    BY <2>1, Zenon
<1>6. \A d \in Clients \ {c} :
        /\ Saving(c)' => target[d] # target'[c]
        /\ Saving(d) => target'[c] # target[d]
        /\ stage'[c] # "request" /\ stage[d] # "request" => target[d] # target'[c]
  BY <1>1, <1>4, <1>5, SameTargets
<1> QED
  BY <1>1, <1>2, <1>3, <1>6, ControlFrame

LEMMA ControlRaise ==
  ASSUME Inv, ControlInv, NEW c \in Clients, MayRun(c), Raise(c)
  PROVE  ControlInv'
<1>1. /\ todo \in [Clients -> Seq(Transactions)] /\ target \in [Clients -> 0..created]
      /\ stage \in [Clients -> Stages]
  BY DEF Inv, Types
<1>2. /\ lock \in {NoOne, c} /\ lock' = NoOne /\ saved' = saved
      /\ stage' = [stage EXCEPT ![c] = AfterException(c)]
      /\ todo' = [todo EXCEPT ![c] = <<>>]
      /\ target' = [target EXCEPT ![c] = IF stage'[c] = "request" THEN None ELSE target[c]]
  BY DEF Raise, MayRun
<1>3. /\ todo'[c] = <<>>
      /\ target'[c] = (IF stage'[c] = "request" THEN None ELSE target[c])
      /\ stage'[c] # "request" => stage[c] # "request"
      /\ \A d \in Clients \ {c} :
           todo'[d] = todo[d] /\ target'[d] = target[d] /\ stage'[d] = stage[d]
      /\ stage'[c] \in Stages
  BY <1>1, <1>2 DEF AfterException, Stages
<1> QED
  BY <1>2, <1>3, ControlIdle

LEMMA ControlPrune ==
  ASSUME Inv, ControlInv, NEW c \in Clients, Prune(c)
  PROVE  ControlInv'
<1>1. /\ stage[c] # "request" /\ todo[c] = <<>> /\ lock = NoOne
      /\ UNCHANGED <<lock, todo, saved>>
      /\ \E to \in Pruning \cup {"request"} : GoPrune(c, to)
  BY DEF Prune, PruneCount, PruneSelect, PruneDelete, PruneCommit, PruneFails, Pruning, Inv,
     Work,
         Idle, LockFree, history
<1>2. PICK to \in Pruning \cup {"request"} :
        /\ stage' = [stage EXCEPT ![c] = to]
        /\ target' = [target EXCEPT ![c] = IF to = "request" THEN None ELSE target[c]]
  BY <1>1 DEF GoPrune
<1>3. /\ stage'[c] = to /\ to \in Stages
      /\ target'[c] = (IF stage'[c] = "request" THEN None ELSE target[c])
      /\ \A d \in Clients \ {c} : target'[d] = target[d] /\ stage'[d] = stage[d]
  BY <1>2 DEF Inv, Types, Stages
<1>4. /\ lock \in {NoOne, c} /\ lock' = NoOne /\ todo'[c] = <<>> /\ saved' = saved
      /\ \A d \in Clients \ {c} : todo'[d] = todo[d]
      /\ stage'[c] # "request" => stage[c] # "request"
      /\ stage'[c] \in Stages
  BY <1>1, <1>3
<1> QED
  BY <1>3, <1>4, ControlIdle

LEMMA ControlStutter ==
  ASSUME ControlInv, UNCHANGED <<lock, todo, target, stage, saved>>
  PROVE  ControlInv'
<1>1. /\ \A c \in Clients : Idle(c)' <=> Idle(c)
      /\ \A c \in Clients : Saving(c)' <=> Saving(c)
      /\ \A c \in Clients : Open(c)' <=> Open(c)
      /\ \A c \in Clients : Form(c) => Form(c)'
  BY ClientFrame, Zenon
<1> QED
  BY <1>1 DEF ControlInv, Forms, Alone, Locks

LEMMA ControlInit == Init => ControlInv
<1> SUFFICES ASSUME Init PROVE ControlInv
  OBVIOUS
<1>1. /\ \A c \in Clients : todo[c] = <<>> /\ target[c] = None /\ stage[c] = "request"
      /\ lock = NoOne
  BY DEF Init
<1>2. \A c \in Clients : Idle(c) /\ ~Saving(c) /\ ~Open(c)
  BY <1>1 DEF Idle, Saving, Open
<1>3. \A c \in Clients : Form(c)
  BY <1>1, <1>2, LeftByStage, Zenon DEF Form
<1> QED
  BY <1>1, <1>2, <1>3 DEF ControlInv, Forms, Alone, Locks

LEMMA ControlCrash ==
  ASSUME Crash
  PROVE  ControlInv'
<1>1. /\ \A c \in Clients : todo'[c] = <<>> /\ target'[c] = None /\ stage'[c] = "request"
      /\ lock' = NoOne
  BY DEF Crash
<1>2. \A c \in Clients : Idle(c)' /\ ~Saving(c)' /\ ~Open(c)'
  BY <1>1 DEF Idle, Saving, Open
<1>3. ASSUME NEW c \in Clients PROVE Form(c)'
  <2>1. <<>> \in Left("request") /\ Left(stage[c])' = Left(stage'[c])
    BY LeftByStage, Zenon DEF Left, Written, Measuring, Measured, Counting
  <2> QED
    BY <1>1, <1>2, <2>1, Zenon DEF Form
<1> QED
  BY <1>1, <1>2, <1>3 DEF ControlInv, Forms, Alone, Locks

LEMMA ControlStep == Inv /\ ControlInv /\ [Next]_vars => ControlInv'
<1> SUFFICES ASSUME Inv, ControlInv, [Next]_vars PROVE ControlInv'
  OBVIOUS
<1>1. CASE UNCHANGED vars
  <2>1. UNCHANGED <<lock, todo, target, stage, saved>>
    BY <1>1 DEF vars, db, work, thread, history
  <2> QED
    BY <2>1, ControlStutter
<1>2. ASSUME NEW c \in Clients, RefuseOrphan(c) \/ FailStatement(c) PROVE ControlInv'
  BY <1>2, ControlRaise DEF RefuseOrphan, FailStatement
<1> QED
  BY <1>1, <1>2, ControlCreate, ControlCalls, ControlExecute, ControlPrune, ControlCrash
     DEF Next, Client

-----------------------------------------------------------------------------
(* Jobs are whole.                                                         *)

\* The rows of a job while it is being saved.
SavedSoFar(c) ==
  LET rows == visible[target[c]]  done == Done(Head(todo[c])) IN
  /\ rows.row /\ rows.measured = 0 /\ rows.progress = 0
  /\ rows.path = IF done <= 2 THEN 0 ELSE done - 2

WholeInv ==
  /\ \A c \in Clients : Saving(c) /\ Open(c) => SavedSoFar(c)
  /\ broken \subseteq Jobs
  /\ \A j \in Jobs \ broken :
       /\ Whole(durable[j])
       /\ Whole(visible[j]) \/ \E c \in Clients : Saving(c) /\ Open(c) /\ target[c] = j

\* The fields of the rows before and after a statement.
Fields(stmt, k, rows, new) ==
  /\ stmt = "insert job" =>
       new.row /\ new.path = 0 /\ new.measured = 0 /\ new.progress = 0 /\ ~new.failed
  /\ stmt = "delete waypoints" =>
       /\ new.row = rows.row /\ new.path = 0
       /\ new.measured = rows.measured /\ new.progress = rows.progress /\ new.failed = rows.failed
  /\ stmt = "insert waypoint" =>
       /\ new.row = rows.row /\ new.path = rows.path + 1
       /\ new.measured = rows.measured /\ new.progress = rows.progress /\ new.failed = rows.failed
  /\ stmt = "insert image" =>
       /\ new.row = rows.row /\ new.path = rows.path
       /\ new.measured = rows.measured /\ new.progress = rows.progress /\ new.failed = rows.failed
  /\ stmt = "insert measurement" =>
       /\ new.row = rows.row /\ new.path = rows.path
       /\ new.measured = rows.measured + 1 /\ new.progress = rows.progress
       /\ new.failed = rows.failed
  /\ stmt = "update job" =>
       /\ new.row = rows.row /\ new.path = rows.path /\ new.measured = rows.measured
       /\ new.progress = (IF rows.row THEN last[k] ELSE rows.progress)
       /\ new.failed = (IF rows.row THEN k \in failed ELSE rows.failed)
  /\ stmt = "delete job" => new = NoRows
  /\ stmt = Commit => new = rows

LEMMA EffectOnFields ==
  ASSUME NEW stmt \in Statements, NEW k \in Jobs, NEW rows \in RowSet, NEW new,
         new = Effect(stmt, k, rows)
  PROVE  Fields(stmt, k, rows, new)
<1>1. CASE stmt = "insert job"
  <2>1. new = NewRow
    BY <1>1 DEF Effect, Commit
  <2>2. /\ NewRow.row /\ NewRow.path = 0 /\ NewRow.measured = 0 /\ NewRow.progress = 0
        /\ ~NewRow.failed
    BY DEF NewRow, NoRows
  <2> QED
    BY <1>1, <2>1, <2>2, Zenon DEF Fields, Commit
<1>2. CASE stmt = "delete waypoints"
  <2>1. new = [rows EXCEPT !.path = 0]
    BY <1>2 DEF Effect, Commit
  <2>2. /\ new.row = rows.row /\ new.path = 0
        /\ new.measured = rows.measured /\ new.progress = rows.progress /\ new.failed = rows.failed
    BY <2>1 DEF RowSet
  <2> QED
    BY <1>2, <2>2, Zenon DEF Fields, Commit
<1>3. CASE stmt = "insert waypoint"
  <2>1. new = [rows EXCEPT !.path = @ + 1]
    BY <1>3 DEF Effect, Commit
  <2>2. /\ new.row = rows.row /\ new.path = rows.path + 1
        /\ new.measured = rows.measured /\ new.progress = rows.progress /\ new.failed = rows.failed
    BY <2>1 DEF RowSet
  <2> QED
    BY <1>3, <2>2, Zenon DEF Fields, Commit
<1>4. CASE stmt = "insert image"
  <2>1. new = [rows EXCEPT !.image = TRUE]
    BY <1>4 DEF Effect, Commit
  <2>2. /\ new.row = rows.row /\ new.path = rows.path
        /\ new.measured = rows.measured /\ new.progress = rows.progress /\ new.failed = rows.failed
    BY <2>1 DEF RowSet
  <2> QED
    BY <1>4, <2>2, Zenon DEF Fields, Commit
<1>5. CASE stmt = "insert measurement"
  <2>1. new = [rows EXCEPT !.measured = @ + 1]
    BY <1>5 DEF Effect, Commit
  <2>2. /\ new.row = rows.row /\ new.path = rows.path
        /\ new.measured = rows.measured + 1 /\ new.progress = rows.progress
              /\ new.failed = rows.failed
    BY <2>1 DEF RowSet
  <2> QED
    BY <1>5, <2>2, Zenon DEF Fields, Commit
<1>6. CASE stmt = "update job"
  <2> DEFINE f == k \in failed
  <2>1. new = IF rows.row THEN [rows EXCEPT !.progress = last[k], !.failed = f] ELSE rows
    BY <1>6 DEF Effect, Commit
  <2> HIDE DEF f
  <2>2. /\ new.row = rows.row /\ new.path = rows.path /\ new.measured = rows.measured
        /\ new.progress = (IF rows.row THEN last[k] ELSE rows.progress)
    BY <2>1 DEF RowSet
  <2>3. new.failed = (IF rows.row THEN f ELSE rows.failed)
    BY <2>1 DEF RowSet
  <2> QED
    BY <1>6, <2>2, <2>3, Zenon DEF Fields, Commit, f
<1>7. CASE stmt = "delete job"
  <2>1. new = NoRows
    BY <1>7 DEF Effect, Commit
  <2> QED
    BY <1>7, <2>1, Zenon DEF Fields, Commit
<1>8. CASE stmt = Commit
  <2>1. new = rows
    BY <1>8 DEF Effect, Commit
  <2> QED
    BY <1>8, <2>1, Zenon DEF Fields, Commit
<1> QED
  BY <1>1, <1>2, <1>3, <1>4, <1>5, <1>6, <1>7, <1>8, Zenon DEF Statements

\* The rows after a statement of c that succeeds.
LEMMA RowsOfExecute ==
  ASSUME Inv, NEW c \in Clients, target[c] \in Jobs, Execute(c)
  PROVE  /\ visible'[target[c]] = Effect(Stmt(c), target[c], visible[target[c]])
         /\ \A k \in Jobs \ {target[c]} : visible'[k] = visible[k] /\ acked'[k] = acked[k]
         /\ durable' = (IF Stmt(c) = Commit THEN visible ELSE durable)
         /\ acked'[target[c]] = (IF Stmt(c) = "delete job" THEN NoRows
                                 ELSE IF EndsOperation(c) THEN visible'[target[c]]
                                 ELSE acked[target[c]])
         /\ UNCHANGED <<created, thread, broken, started, faults>>
         /\ Stmt(c) \in Statements /\ visible[target[c]] \in RowSet
         /\ durable[target[c]] \in RowSet
<1>1. /\ visible \in [Jobs -> RowSet] /\ durable \in [Jobs -> RowSet]
      /\ acked \in [Jobs -> RowSet]
  BY DEF Inv, Types
<1>2. Stmt(c) \in Statements
  BY RestIsWork, Zenon DEF Inv, Execute, MayRun
<1>3. /\ visible' = [visible EXCEPT ![target[c]] = Effect(Stmt(c), target[c], visible[target[c]])]
      /\ acked' = [acked EXCEPT ![target[c]] =
                     IF Stmt(c) = "delete job" THEN NoRows
                     ELSE IF EndsOperation(c) THEN visible'[target[c]] ELSE acked[target[c]]]
  BY DEF Execute
<1>4. /\ durable' = (IF Stmt(c) = Commit THEN visible ELSE durable)
      /\ UNCHANGED <<created, thread, broken, started, faults>>
  BY Zenon DEF Execute
<1>5. /\ visible'[target[c]] = Effect(Stmt(c), target[c], visible[target[c]])
      /\ \A k \in Jobs \ {target[c]} : visible'[k] = visible[k] /\ acked'[k] = acked[k]
  BY <1>1, <1>3, Zenon
<1>6. acked'[target[c]] = (IF Stmt(c) = "delete job" THEN NoRows
                           ELSE IF EndsOperation(c) THEN visible'[target[c]]
                           ELSE acked[target[c]])
  BY <1>1, <1>3, Zenon
<1> QED
  BY <1>1, <1>2, <1>4, <1>5, <1>6, Zenon

LEMMA FieldsOfExecute ==
  ASSUME Inv, NEW c \in Clients, target[c] \in Jobs, Execute(c)
  PROVE  Fields(Stmt(c), target[c], visible[target[c]], visible'[target[c]])
<1>1. /\ visible'[target[c]] = Effect(Stmt(c), target[c], visible[target[c]])
      /\ Stmt(c) \in Statements /\ visible[target[c]] \in RowSet
  BY RowsOfExecute, Zenon
<1>2. PICK s \in Statements, k \in Jobs, r \in RowSet :
        s = Stmt(c) /\ k = target[c] /\ r = visible[target[c]]
  BY <1>1, Zenon
<1>3. PICK n : n = visible'[target[c]]
  OBVIOUS
<1>4. n = Effect(s, k, r)
  BY <1>1, <1>2, <1>3, Zenon
<1>5. Fields(s, k, r, n)
  BY <1>4, EffectOnFields
<1> QED
  BY <1>2, <1>3, <1>5, Zenon

\* A call of an operation changes no row.
LEMMA Calls ==
  ASSUME Inv, NEW c \in Clients,
         \/ CreateJob(c) \/ RunJob(c) \/ DeleteJob(c)
         \/ RecordWaypoint(c) \/ StoreOutcome(c)
  PROVE  /\ Idle(c) /\ UNCHANGED <<visible, durable, acked, saved, broken, deleted, stale>>
         /\ \A d \in Clients \ {c} :
              todo'[d] = todo[d] /\ target'[d] = target[d] /\ stage'[d] = stage[d]
<1>1. /\ todo \in [Clients -> Seq(Transactions)] /\ target \in [Clients -> 0..created]
      /\ stage \in [Clients -> Stages]
  BY DEF Inv, Types
<1>2. CASE CreateJob(c) \/ RunJob(c) \/ DeleteJob(c)
  <2>1. PICK j, list : Start(c, j, list)
    BY <1>2 DEF CreateJob, RunJob, DeleteJob
  <2>2. Idle(c) /\ todo' = [todo EXCEPT ![c] = list] /\ target' = [target EXCEPT ![c] = j]
    BY <2>1 DEF Start, Call
  <2>3. /\ UNCHANGED <<visible, durable, acked, saved, broken, deleted, stale>>
        /\ stage' \in {stage, [stage EXCEPT ![c] = "run"]}
    BY <1>2 DEF CreateJob, RunJob, DeleteJob, db, thread, history
  <2> QED
    BY <1>1, <2>2, <2>3
<1>3. CASE RecordWaypoint(c) \/ StoreOutcome(c)
  <2>1. PICK list : Call(c, list)
    BY <1>3 DEF RecordWaypoint, StoreOutcome
  <2>2. Idle(c) /\ todo' = [todo EXCEPT ![c] = list]
    BY <2>1 DEF Call
  <2>3. /\ UNCHANGED <<visible, durable, acked, saved, broken, deleted, stale, target>>
        /\ stage' \in {[stage EXCEPT ![c] = "loop"], [stage EXCEPT ![c] = "final"]}
    BY <1>3 DEF RecordWaypoint, StoreOutcome, db, history
  <2> QED
    BY <1>1, <2>2, <2>3
<1> QED
  BY <1>2, <1>3

\* save_job builds the rows statement by statement and commits when the last waypoint
\* is in.
LEMMA SavedSoFarStep ==
  ASSUME Inv, ControlInv, NEW c \in Clients, Saving(c), Execute(c), Open(c) => SavedSoFar(c)
  PROVE  /\ EndsOperation(c) =>
              Open(c) /\ Stmt(c) = Commit /\ visible[target[c]].path = PathLen
         /\ ~EndsOperation(c) =>
              /\ Stmt(c) # Commit /\ Saving(c)' /\ Open(c)' /\ SavedSoFar(c)'
              /\ target'[c] = target[c] /\ visible'[target[c]].path \in 0..PathLen
<1> DEFINE t == Head(todo[c])
           j == target[c]
<1>1. /\ j \in Jobs /\ todo'[c] = Rest(c) /\ target'[c] = (IF Rest(c) = <<>> /\ stage[c] = "request" THEN None ELSE j)
      /\ saved' = (IF EndsOperation(c) THEN saved \cup {j} ELSE saved)
  BY ControlOfExecute, Zenon
<1>2. /\ t \in Seq(Statements) /\ SaveRest(t) /\ Stmt(c) = t[1]
      /\ EndsOperation(c) <=> Stmt(c) = Commit
      /\ ~EndsOperation(c) =>
           /\ Rest(c) # <<>> /\ Head(Rest(c)) = Tail(t)
           /\ Done(Tail(t)) = Done(t) + 1 /\ Head(Tail(t)) \notin Opening
  BY SavingSteps, Zenon DEF Inv, ControlInv
<1>3. /\ Done(t) \in 0..PathLen + 2 /\ t[1] = SaveStatement(Done(t) + 1)
      /\ t[1] = Commit <=> Done(t) = PathLen + 2
      /\ t[1] \in Opening <=> Done(t) = 0
  <2>1. PICK u \in Seq(Statements) : u = t /\ SaveRest(u)
    BY <1>2, Zenon
  <2>2. /\ Done(u) \in 0..PathLen + 2 /\ u[1] = SaveStatement(Done(u) + 1)
        /\ u[1] = Commit <=> Done(u) = PathLen + 2
        /\ u[1] \in Opening <=> Done(u) = 0
    BY <2>1, SaveRestStep, Zenon
  <2> QED
    BY <2>1, <2>2, Zenon
<1>4. Open(c) <=> Done(t) # 0
  BY <1>2, <1>3, Zenon DEF Open, Saving
<1>5. PathLen \in Nat
  BY JobStoreAssumption
<1>6. /\ visible'[j] = Effect(Stmt(c), j, visible[j]) /\ Stmt(c) \in Statements
      /\ visible[j] \in RowSet
  BY <1>1, RowsOfExecute, Zenon
<1> DEFINE d == Done(t)
           old == visible[j]
           new == visible'[j]
<1>7. d # 0 => /\ old.row /\ old.measured = 0 /\ old.progress = 0
               /\ old.path = IF d <= 2 THEN 0 ELSE d - 2
  BY <1>4, Zenon DEF SavedSoFar
<1>8. CASE EndsOperation(c)
  <2>1. d = PathLen + 2
    BY <1>2, <1>3, <1>8, Zenon
  <2>2. d # 0 /\ (IF d <= 2 THEN 0 ELSE d - 2) = PathLen
    BY <1>5, <2>1
  <2>3. visible[j].path = PathLen
    BY <1>7, <2>2, Zenon
  <2> QED
    BY <1>2, <1>4, <1>8, <2>2, <2>3, Zenon
<1>9. CASE ~EndsOperation(c)
  <2>1. /\ todo'[c] # <<>> /\ Head(todo'[c]) = Tail(t) /\ target'[c] = j /\ saved' = saved
        /\ d # PathLen + 2 /\ Stmt(c) # Commit
    BY <1>1, <1>2, <1>3, <1>9, Zenon
  <2>2. Saving(c)'
    BY <2>1, Zenon DEF Saving, Idle
  <2>3. Open(c)'
    BY <1>2, <1>9, <2>1, Zenon DEF Open, Idle, Stmt
  <2>4. Done(Head(todo'[c])) = d + 1
    BY <1>2, <1>9, <2>1, Zenon
  <2>5. /\ d + 1 = 1 \/ d + 1 = 2 \/ d + 1 \in 3..PathLen + 2
        /\ d \in Nat /\ (d + 1 = 1 <=> d = 0)
    BY <1>3, <1>5, <2>1
  <2>6. /\ new.row /\ new.measured = 0 /\ new.progress = 0
        /\ new.path = IF d + 1 <= 2 THEN 0 ELSE (d + 1) - 2
    <3>1. CASE d + 1 = 1
      <4>1. Stmt(c) = "insert job"
        BY <1>2, <1>3, <3>1, SaveStatements, Zenon
      <4>2. new.row /\ new.path = 0 /\ new.measured = 0 /\ new.progress = 0
        BY <1>1, <4>1, FieldsOfExecute, Zenon DEF Fields
      <4> QED
        BY <3>1, <4>2
    <3>2. CASE d + 1 = 2
      <4>1. Stmt(c) = "delete waypoints"
        BY <1>2, <1>3, <3>2, SaveStatements, Zenon
      <4>2. /\ new.row = old.row /\ new.path = 0
            /\ new.measured = old.measured /\ new.progress = old.progress
        BY <1>1, <4>1, FieldsOfExecute, Zenon DEF Fields
      <4>3. d # 0 /\ d + 1 <= 2
        BY <2>5, <3>2
      <4> HIDE DEF new, old, d
      <4> QED
        BY <1>7, <4>2, <4>3
    <3>3. CASE d + 1 \in 3..PathLen + 2
      <4>1. Stmt(c) = "insert waypoint"
        BY <1>2, <1>3, <3>3, SaveStatements, Zenon
      <4>2. /\ new.row = old.row /\ new.path = old.path + 1
            /\ new.measured = old.measured /\ new.progress = old.progress
        BY <1>1, <4>1, FieldsOfExecute, Zenon DEF Fields
      <4> HIDE DEF new, old, d
      <4>3. d # 0 /\ ~(d + 1 <= 2)
        BY <1>5, <2>5, <3>3
      <4> QED
        BY <1>7, <2>5, <4>2, <4>3
    <3> QED
      BY <2>5, <3>1, <3>2, <3>3, Zenon
  <2>7. SavedSoFar(c)'
    BY <2>1, <2>4, <2>6, Zenon DEF SavedSoFar
  <2>8. new.path \in 0..PathLen
    <3>1. PathLen \in Nat /\ d + 1 <= PathLen + 2 /\ d \in Nat
      BY <1>3, <1>5, <2>1
    <3> HIDE DEF new, d
    <3> QED
      BY <2>6, <3>1
  <2> QED
    BY <1>9, <2>1, <2>2, <2>3, <2>7, <2>8, Zenon
<1> QED
  BY <1>8, <1>9

\* No other statement takes waypoints from a job that stays.
LEMMA SavedStatement ==
  ASSUME Inv, ControlInv, NEW c \in Clients, ~Saving(c), ~Idle(c)
  PROVE  \/ Stmt(c) = "insert image" \/ Stmt(c) = "insert measurement" \/ Stmt(c) = "update job"
         \/ Stmt(c) = "delete job" \/ Stmt(c) = Commit
<1>1. todo[c] \in Left(stage[c]) /\ stage[c] \in Stages /\ todo[c] # <<>>
  BY DEF ControlInv, Forms, Form, Inv, Types, Idle
<1>2. todo[c] \in {<<SaveImage>>, <<Delete>>, <<Written>>, Measuring, Measured, Counting}
  <2>1. stage[c] \in {"request", "run", "loop", "final"}
    BY <1>1, LeftByStage, Zenon DEF Stages, Loop, Pruning
  <2> QED
    BY <1>1, <2>1, LeftByStage, Zenon
<1> QED
  BY <1>2, SavedSteps, Zenon

LEMMA SavedStepKeepsPath ==
  ASSUME Inv, ControlInv, NEW c \in Clients, ~Saving(c), Execute(c)
  PROVE  /\ visible'[target[c]].row => visible[target[c]].row
         /\ visible'[target[c]].row => visible'[target[c]].path = visible[target[c]].path
<1>1. ~Idle(c) /\ target[c] \in Jobs
  BY ControlOfExecute, Zenon
<1>2. /\ visible'[target[c]] = Effect(Stmt(c), target[c], visible[target[c]])
      /\ Stmt(c) \in Statements /\ visible[target[c]] \in RowSet
  BY <1>1, RowsOfExecute, Zenon
<1>3. \/ Stmt(c) = "insert image" \/ Stmt(c) = "insert measurement" \/ Stmt(c) = "update job"
      \/ Stmt(c) = "delete job" \/ Stmt(c) = Commit
  BY <1>1, SavedStatement, Zenon
<1>4. ~NoRows.row
  BY DEF NoRows
<1>5. PICK s \in Statements, old \in RowSet, new \in {visible'[target[c]]} :
        s = Stmt(c) /\ old = visible[target[c]] /\ new = visible'[target[c]]
  BY <1>2, Zenon
<1>6. new = Effect(s, target[c], old)
  BY <1>2, <1>5, Zenon
<1>7. CASE s = "insert image"
  <2>1. new = [old EXCEPT !.image = TRUE]
    BY <1>6, <1>7 DEF Effect, Commit
  <2>2. new.row = old.row /\ new.path = old.path
    BY <1>5, <2>1 DEF RowSet
  <2> QED
    BY <1>5, <2>2, Zenon
<1>8. CASE s = "insert measurement"
  <2>1. new = [old EXCEPT !.measured = @ + 1]
    BY <1>6, <1>8 DEF Effect, Commit
  <2>2. new.row = old.row /\ new.path = old.path
    BY <1>5, <2>1 DEF RowSet
  <2> QED
    BY <1>5, <2>2, Zenon
<1>9. CASE s = "update job"
  <2> DEFINE f == target[c] \in failed
  <2>1. new = IF old.row THEN [old EXCEPT !.progress = last[target[c]], !.failed = f] ELSE old
    BY <1>6, <1>9 DEF Effect, Commit
  <2> HIDE DEF f
  <2>2. new.row = old.row /\ new.path = old.path
    BY <1>5, <2>1 DEF RowSet
  <2> QED
    BY <1>5, <2>2, Zenon
<1>10. CASE s = "delete job"
  <2>1. new = NoRows
    BY <1>6, <1>10 DEF Effect, Commit
  <2> QED
    BY <1>4, <1>5, <2>1, Zenon
<1>11. CASE s = Commit
  <2>1. new = old
    BY <1>6, <1>11 DEF Effect, Commit
  <2> QED
    BY <1>4, <1>5, <2>1, Zenon
<1> QED
  BY <1>3, <1>5, <1>7, <1>8, <1>9, <1>10, <1>11, Zenon

LEMMA WholeExecute ==
  ASSUME Inv, ControlInv, WholeInv, NEW c \in Clients, Execute(c)
  PROVE  WholeInv'
<1> DEFINE j == target[c]
<1>1. /\ j \in Jobs /\ lock \in {NoOne, c}
      /\ \A d \in Clients \ {c} :
           /\ todo'[d] = todo[d] /\ target'[d] = target[d]
           /\ target[d] \in saved' <=> target[d] \in saved
  BY ControlOfExecute, Zenon
<1>2. /\ \A k \in Jobs \ {j} : visible'[k] = visible[k]
      /\ durable' = (IF Stmt(c) = Commit THEN visible ELSE durable)
      /\ broken' = broken /\ Stmt(c) \in Statements
      /\ visible'[j] = Effect(Stmt(c), j, visible[j]) /\ visible[j] \in RowSet
  BY <1>1, RowsOfExecute, Zenon
<1>3. \A d \in Clients : Open(d) => d = c
  BY <1>1, OthersClosed
<1>4. \A d \in Clients \ {c} : ~Open(d)'
  BY <1>1, <1>3 DEF Open, Idle, Stmt
<1>5. \A k \in Jobs \ broken : k # j => Whole(visible[k])
  BY <1>3, Zenon DEF WholeInv
<1>6. \A k \in Jobs \ broken : Whole(durable[k])
  BY Zenon DEF WholeInv
<1>7. CASE Saving(c)
  <2>1. /\ EndsOperation(c) =>
             Open(c) /\ Stmt(c) = Commit /\ visible[j].path = PathLen
        /\ ~EndsOperation(c) =>
             Stmt(c) # Commit /\ Saving(c)' /\ Open(c)' /\ SavedSoFar(c)' /\ target'[c] = j
    BY <1>7, SavedSoFarStep, Zenon DEF WholeInv
  <2>2. CASE EndsOperation(c)
    <3>1. visible'[j] = visible[j] /\ Whole(visible[j])
      BY <1>1, <2>1, <2>2, FieldsOfExecute, Zenon DEF Whole, Fields
    <3>2. \A k \in Jobs \ broken : Whole(visible[k]) /\ visible'[k] = visible[k]
      BY <1>2, <1>5, <3>1, Zenon
    <3>3. ~Saving(c)'
      <4>1. Saving(c)' => target'[c] = j
        BY FormOfExecute, Zenon
      <4>2. j \in saved'
        BY <2>2, ControlOfExecute, Zenon
      <4> QED
        BY <4>1, <4>2 DEF Saving
    <3> QED
      BY <1>2, <1>4, <2>1, <2>2, <3>2, <3>3 DEF WholeInv
  <2>3. CASE ~EndsOperation(c)
    <3>1. durable' = durable /\ Saving(c)' /\ Open(c)' /\ target'[c] = j /\ SavedSoFar(c)'
      BY <1>2, <2>1, <2>3, Zenon
    <3>2. \A k \in Jobs \ broken : Whole(visible'[k]) \/ k = j
      BY <1>2, <1>5, Zenon
    <3> QED
      BY <1>2, <1>4, <1>6, <3>1, <3>2 DEF WholeInv
  <2> QED
    BY <2>2, <2>3
<1>8. CASE ~Saving(c)
  <2>1. j \notin broken => Whole(visible[j])
    BY <1>1, <1>3, <1>8, Zenon DEF WholeInv
  <2>2. Whole(visible[j]) => Whole(visible'[j])
    BY <1>8, SavedStepKeepsPath, Zenon DEF Whole
  <2>3. \A k \in Jobs \ broken : Whole(visible[k]) /\ Whole(visible'[k])
    BY <1>2, <1>5, <2>1, <2>2, Zenon
  <2>4. ~Saving(c)'
    BY <1>8, FormOfExecute, Zenon
  <2>5. \A k \in Jobs \ broken : Whole(durable'[k])
    BY <1>2, <1>6, <2>3, Zenon
  <2> QED
    BY <1>2, <1>4, <2>3, <2>4, <2>5 DEF WholeInv
<1> QED
  BY <1>7, <1>8

\* A failing statement publishes nothing of what others have under way: nobody else
\* has anything under way.
LEMMA WholeRaise ==
  ASSUME Inv, ControlInv, WholeInv, NEW c \in Clients, MayRun(c), Raise(c),
         visible' \in {visible, durable}
  PROVE  WholeInv'
<1>1. /\ todo \in [Clients -> Seq(Transactions)] /\ target \in [Clients -> 0..created]
      /\ created \in 0..MaxCreated
  BY DEF Inv, Types
<1>2. /\ todo'[c] = <<>> /\ saved' = saved /\ durable' = durable
      /\ \A d \in Clients \ {c} : todo'[d] = todo[d] /\ target'[d] = target[d]
      /\ broken' = IF target[c] \in saved THEN broken ELSE broken \cup {target[c]}
  BY <1>1 DEF Raise
<1>3. \A d \in Clients : Open(d) => d = c
  BY OthersClosed DEF MayRun
<1>4. \A d \in Clients : ~Open(d)'
  <2>1. ~Open(c)'
    BY <1>2, Zenon DEF Open, Idle
  <2>2. \A d \in Clients \ {c} : ~Open(d)'
    BY <1>2, <1>3 DEF Open, Idle, Stmt
  <2> QED
    BY <2>1, <2>2
<1>5. target[c] \in Jobs
  <2>1. target[c] # 0
    BY DEF MayRun, Inv, Work, None
  <2> QED
    BY <1>1, <2>1, JobStoreAssumption DEF Jobs
<1>6. broken' \subseteq Jobs /\ broken \subseteq broken'
  BY <1>2, <1>5 DEF WholeInv
<1>7. ASSUME NEW k \in Jobs \ broken'
      PROVE  Whole(visible[k]) /\ Whole(durable[k])
  <2>1. k \notin broken /\ (target[c] = k => target[c] \in saved)
    BY <1>2, <1>6, <1>7
  <2> QED
    BY <1>3, <2>1, Zenon DEF WholeInv, Saving
<1> QED
  BY <1>2, <1>4, <1>6, <1>7 DEF WholeInv

LEMMA WholePrune ==
  ASSUME Inv, ControlInv, WholeInv, NEW c \in Clients, Prune(c)
  PROVE  WholeInv'
<1>1. UNCHANGED <<todo, saved, broken>> /\ LockFree
  BY DEF Prune, PruneCount, PruneSelect, PruneDelete, PruneCommit, PruneFails, history
<1>2. \A d \in Clients : ~Open(d)
  BY <1>1, NobodyOpen, Zenon
<1>3. \A d \in Clients : ~Open(d)'
  BY <1>1, <1>2 DEF Open, Idle, Stmt
<1>4. \A k \in Jobs \ broken : Whole(visible[k]) /\ Whole(durable[k])
  BY <1>2, Zenon DEF WholeInv
<1>5. \A k \in Jobs : /\ visible'[k] \in {visible[k], durable[k], NoRows}
                      /\ durable'[k] \in {visible[k], durable[k]}
  <2>1. CASE PruneDelete(c)
    BY <2>1 DEF PruneDelete
  <2>2. CASE PruneCount(c) \/ PruneSelect(c) \/ PruneCommit(c) \/ PruneFails(c)
    BY <2>2 DEF PruneCount, PruneSelect, PruneCommit, PruneFails, db
  <2> QED
    BY <2>1, <2>2 DEF Prune
<1>6. Whole(NoRows)
  BY DEF Whole, NoRows
<1> QED
  BY <1>1, <1>3, <1>4, <1>5, <1>6 DEF WholeInv

LEMMA WholeStep == Inv /\ ControlInv /\ WholeInv /\ [Next]_vars => WholeInv'
<1> SUFFICES ASSUME Inv, ControlInv, WholeInv, [Next]_vars PROVE WholeInv'
  OBVIOUS
<1>1. ASSUME NEW c \in Clients,
             \/ CreateJob(c) \/ RunJob(c) \/ DeleteJob(c)
             \/ RecordWaypoint(c) \/ StoreOutcome(c)
      PROVE  WholeInv'
  <2>1. Idle(c) /\ UNCHANGED <<visible, durable, saved, broken>>
    BY <1>1, Calls
  <2>2. ~Open(c)' /\ ~Open(c)
    BY <1>1, <2>1, ControlCreate, ControlCalls DEF Open
  <2>3. ASSUME NEW d \in Clients \ {c}
        PROVE  /\ target'[d] = target[d] /\ Head(todo'[d]) = Head(todo[d])
               /\ (Saving(d)' <=> Saving(d)) /\ (Open(d)' <=> Open(d))
    <3>1. todo'[d] = todo[d] /\ target'[d] = target[d] /\ stage'[d] = stage[d]
      BY <1>1, Calls
    <3> QED
      BY <2>1, <3>1, ClientFrame, Zenon
  <2>4. \A d \in Clients : Saving(d)' /\ Open(d)' => SavedSoFar(d)'
    <3> SUFFICES ASSUME NEW d \in Clients, Saving(d)', Open(d)' PROVE SavedSoFar(d)'
      OBVIOUS
    <3>1. d # c
      BY <2>2
    <3>2. SavedSoFar(d)
      BY <2>3, <3>1, Zenon DEF WholeInv
    <3> QED
      BY <2>1, <2>3, <3>1, <3>2, Zenon DEF SavedSoFar
  <2> QED
    BY <2>1, <2>2, <2>3, <2>4, Zenon DEF WholeInv
<1>2. ASSUME NEW c \in Clients, RefuseOrphan(c) \/ FailStatement(c) PROVE WholeInv'
  BY <1>2, WholeRaise DEF RefuseOrphan, FailStatement
<1>3. CASE Crash
  <2>1. /\ visible' = durable /\ durable' = durable /\ broken' = broken
        /\ \A d \in Clients : todo'[d] = <<>>
    BY <1>3 DEF Crash
  <2>2. \A d \in Clients : ~Open(d)'
    BY <2>1, Zenon DEF Open, Idle
  <2> QED
    BY <2>1, <2>2 DEF WholeInv
<1>4. CASE UNCHANGED vars
  BY <1>4 DEF vars, db, work, thread, history, WholeInv, Saving, Open, Idle, Stmt, SavedSoFar
<1> QED
  BY <1>1, <1>2, <1>3, <1>4, WholeExecute, WholePrune DEF Next, Client

LEMMA WholeInit == Init => WholeInv
<1> SUFFICES ASSUME Init PROVE WholeInv
  OBVIOUS
<1>1. \A j \in Jobs : Whole(visible[j]) /\ Whole(durable[j])
  BY DEF Init, Whole, NoRows
<1> QED
  BY <1>1 DEF Init, WholeInv, Open, Idle

LEMMA WholeAlways == Spec => [](Inv /\ ControlInv /\ WholeInv)
BY InvInit, InvStep, ControlInit, ControlStep, WholeInit, WholeStep, PTL DEF Spec

\* Whoever reads between operations, and whoever restarts the process at any moment,
\* finds a job with all its waypoints or not at all, unless its save_job raised:
\* neither the commit of prune_jobs, which gives the lock back between its statements,
\* nor that of any other operation publishes half of it.
THEOREM JobsStayWhole == Spec => []JobsAreWhole
<1>1. ControlInv /\ WholeInv => JobsAreWhole
  BY NobodyOpen DEF WholeInv, JobsAreWhole
<1> QED
  BY <1>1, WholeAlways, PTL

-----------------------------------------------------------------------------
(* Progress is backed by measurements.                                     *)

\* Where a job thread still writes about its job.
Driving == Loop \cup {"except", "final"}

\* The thread of c has counted a waypoint that it has not measured, and may never.
Behind(c) == \/ todo[c] = Measuring \/ stage[c] = "except"
             \/ stage[c] = "final" /\ target[c] \in failed

One(b) == IF b THEN 1 ELSE 0

\* What rows may be missing of the waypoints the Job object counts.
Counted(rows, j, behind) == rows.row => last[j] <= rows.measured + One(behind)

Backed(rows, j) ==
  /\ rows.path <= PathLen /\ rows.measured <= last[j]
  /\ rows.progress <= rows.measured + One(rows.failed)

\* Between the measurement and its commit the file is one behind the connection.
Driven(c) ==
  LET j == target[c] IN
  /\ stage[c] = "except" => j \in failed
  /\ todo[c] = Measuring => visible[j].measured < last[j] /\ durable[j].measured < last[j]
  /\ Counted(visible[j], j, Behind(c))
  /\ Counted(durable[j], j, Behind(c) \/ todo[c] = Measured)

ProgressInv ==
  /\ \A j \in Jobs : Backed(visible[j], j) /\ Backed(durable[j], j) /\ acked[j] \in Rows
  /\ \A c \in Clients : stage[c] \in Driving => Driven(c)

LEMMA RecordingLists ==
  /\ Measuring # Measured /\ Measured # Counting /\ Measuring # Counting
  /\ <<Written>> # Measuring /\ <<Written>> # Measured /\ <<Written>> # Counting
  /\ <<>> # Measuring /\ <<>> # Measured /\ <<>> # Counting
<1>1. /\ "insert measurement" \in Statements /\ "update job" \in Statements
      /\ <<>> \in Seq(Transactions) /\ Counting \in Seq(Transactions)
      /\ Measuring = << <<"insert measurement", Commit>> >> \o Counting
      /\ Measured = <<Written>> \o Counting
      /\ Counting = << <<"update job", Commit>> >> \o <<>>
      /\ <<Written>> = <<Written>> \o <<>>
  BY SavedLists, Zenon
<1>2. /\ Measuring # <<>> /\ Head(Head(Measuring)) = "insert measurement"
      /\ Measured # <<>> /\ Tail(Measured) = Counting /\ Head(Head(Measured)) = Commit
  BY <1>1, PairSteps, Zenon
<1>3. /\ Counting # <<>> /\ Head(Head(Counting)) = "update job"
      /\ Tail(<<Written>>) = <<>> /\ Head(Head(<<Written>>)) = Commit
  BY <1>1, PairSteps, Zenon
<1> QED
  BY <1>2, <1>3, Zenon DEF Commit

LEMMA OneRange ==
  /\ \A b : One(b) = 0 \/ One(b) = 1
  /\ \A b, d : (b => d) => One(b) <= One(d)
BY Zenon, SMT DEF One

LEMMA InRange ==
  ASSUME NEW rows \in RowSet, NEW n \in 0..PathLen,
         rows.path <= PathLen, rows.measured <= n, rows.progress <= n
  PROVE  rows \in Rows
BY JobStoreAssumption DEF RowSet, Rows

\* a has no row that b has not, and no measurement more or less as long as it has a row.
Like(a, b) == /\ a.measured <= b.measured
              /\ a.row => b.row /\ a.measured = b.measured

LEMMA LikeItself ==
  ASSUME NEW rows \in RowSet
  PROVE  Like(rows, rows) /\ Like(NoRows, rows)
BY DEF Like, RowSet, NoRows

\* A thread whose client does nothing stays where it is, whatever others do to the rows.
LEMMA DrivenFrame ==
  ASSUME Inv, Inv', NEW d \in Clients, Driven(d), target[d] \in Jobs,
         todo'[d] = todo[d], target'[d] = target[d], stage'[d] = stage[d],
         last'[target[d]] = last[target[d]],
         target[d] \in failed' <=> target[d] \in failed,
         \/ Like(visible'[target[d]], visible[target[d]])
         \/ todo[d] # Measured /\ Like(visible'[target[d]], durable[target[d]]),
         durable'[target[d]] \in {visible[target[d]], durable[target[d]]}
  PROVE  Driven(d)'
<1>1. PICK k \in Jobs : k = target[d]
  OBVIOUS
<1>2. /\ (todo'[d] = Measuring <=> todo[d] = Measuring)
      /\ (todo'[d] = Measured <=> todo[d] = Measured)
      /\ (Behind(d)' <=> Behind(d))
  BY Zenon DEF Behind, Measuring, Measured, Written
<1>3. /\ visible[k] \in RowSet /\ durable[k] \in RowSet /\ visible'[k] \in RowSet
      /\ last[k] \in 0..PathLen /\ PathLen \in Nat
  BY JobStoreAssumption DEF Inv, Types
<1>4. PICK v \in RowSet, f \in RowSet, w \in RowSet, n \in 0..PathLen :
        v = visible[k] /\ f = durable[k] /\ w = visible'[k] /\ n = last[k]
  BY <1>3
<1>5. v.measured \in Nat /\ f.measured \in Nat /\ w.measured \in Nat /\ n \in Nat
  BY <1>3 DEF RowSet
<1> DEFINE b == Behind(d)
           u == todo[d] = Measured
           m == todo[d] = Measuring
<1>6. /\ stage[d] = "except" => k \in failed
      /\ m => v.measured < n /\ f.measured < n
      /\ v.row => n <= v.measured + One(b)
      /\ f.row => n <= f.measured + One(b \/ u)
  BY <1>1, <1>4, Zenon DEF Driven, Counted
<1>7. Like(w, v) \/ (~u /\ Like(w, f))
  BY <1>1, <1>4, Zenon
<1>8. durable'[k] = v \/ durable'[k] = f
  BY <1>1, <1>4, Zenon
<1> HIDE DEF b, u, m
<1>9. /\ m => w.measured < n
      /\ w.row => n <= w.measured + One(b)
  <2>1. ~u => One(b \/ u) = One(b)
    BY Zenon DEF One
  <2>2. One(b) \in {0, 1}
    BY OneRange
  <2> QED
    BY <1>5, <1>6, <1>7, <2>1, <2>2 DEF Like
<1>10. v.row => n <= v.measured + One(b \/ u)
  <2>1. /\ One(b) = 0 \/ One(b) = 1
        /\ One(b \/ u) = 0 \/ One(b \/ u) = 1
        /\ b => One(b \/ u) = 1
        /\ ~b => One(b) = 0
    BY Zenon DEF One
  <2> QED
    BY <1>5, <1>6, <2>1
<1>11. /\ m => durable'[k].measured < n
       /\ durable'[k].row => n <= durable'[k].measured + One(b \/ u)
  BY <1>6, <1>8, <1>10, Zenon
<1>12. last'[k] = n /\ (k \in failed' <=> k \in failed) /\ target'[d] = k
  BY <1>1, <1>4, Zenon
<1>13. Counted(visible[k], k, Behind(d))' /\ Counted(durable[k], k, Behind(d) \/ todo[d] = Measured)'
  <2>1. /\ One(Behind(d))' = One(b)
        /\ One(Behind(d) \/ todo[d] = Measured)' = One(b \/ u)
    BY <1>2, Zenon DEF One, b, u
  <2> QED
    BY <1>4, <1>9, <1>11, <1>12, <2>1, Zenon DEF Counted
<1> QED
  BY <1>2, <1>4, <1>6, <1>9, <1>11, <1>12, <1>13, Zenon DEF Driven, m

\* The statements of save_job.
LEMMA SavingStatement ==
  ASSUME Inv, ControlInv, NEW c \in Clients, Saving(c)
  PROVE  Stmt(c) \in {"insert job", "delete waypoints", "insert waypoint", Commit}
<1>1. Head(todo[c]) \in Seq(Statements) /\ SaveRest(Head(todo[c])) /\ Stmt(c) = Head(todo[c])[1]
  BY SavingSteps, Zenon DEF Inv, ControlInv
<1>2. PICK t \in Seq(Statements) : t = Head(todo[c]) /\ SaveRest(t)
  BY <1>1, Zenon
<1>3. Done(t) \in 0..PathLen + 2 /\ t[1] = SaveStatement(Done(t) + 1)
  BY <1>2, SaveRestStep, Zenon
<1>4. \/ Done(t) + 1 = 1 \/ Done(t) + 1 = 2 \/ Done(t) + 1 \in 3..PathLen + 2
      \/ Done(t) + 1 = PathLen + 3
  BY <1>3, JobStoreAssumption
<1> QED
  BY <1>1, <1>2, <1>3, <1>4, SaveStatements, Zenon

LEMMA RequestLists ==
  {<<SaveImage>>, <<Delete>>} \cap {Measuring, Measured, Counting, <<Written>>} = {}
<1>1. /\ "insert measurement" \in Statements /\ "update job" \in Statements
      /\ "delete job" \in Statements /\ "insert image" \in Statements
      /\ <<>> \in Seq(Transactions) /\ Counting \in Seq(Transactions)
      /\ <<SaveImage>> = << <<"insert image", Commit>> >> \o <<>>
      /\ Measuring = << <<"insert measurement", Commit>> >> \o Counting
      /\ Measured = <<Written>> \o Counting
      /\ Counting = << <<"update job", Commit>> >> \o <<>>
      /\ <<Delete>> = << <<"delete job", Commit>> >> \o <<>>
      /\ <<Written>> = <<Written>> \o <<>>
  BY SavedLists, Zenon
<1>2. Head(Head(<<Delete>>)) = "delete job" /\ Head(Head(Counting)) = "update job"
  BY <1>1, PairSteps, Zenon
<1>3. Head(Head(Measuring)) = "insert measurement" /\ Head(Head(Measured)) = Commit
  BY <1>1, PairSteps, Zenon
<1>4. Head(Head(<<SaveImage>>)) = "insert image" /\ Head(Head(<<Written>>)) = Commit
  BY <1>1, PairSteps, Zenon
<1> QED
  BY <1>2, <1>3, <1>4, Zenon DEF Commit

\* The lists behind the statements of a thread and of a request.
LEMMA ThreadStatement ==
  ASSUME Inv, ControlInv, NEW c \in Clients, ~Saving(c), ~Idle(c)
  PROVE  /\ stage[c] \notin {"except"} \cup Pruning
         /\ todo[c] \in {Measuring, Measured} => stage[c] = "loop"
         /\ Stmt(c) = "insert measurement" => todo[c] = Measuring /\ stage[c] = "loop"
         /\ Stmt(c) = "update job" => todo[c] = Counting /\ stage[c] \in Driving
         /\ IF stage[c] = "request"
            THEN Stmt(c) = "insert image" \/ Stmt(c) = "delete job" \/ Stmt(c) = Commit
            ELSE todo[c] \in {Measuring, Measured, Counting, <<Written>>}
<1>1. todo[c] \in Left(stage[c]) /\ stage[c] \in Stages /\ todo[c] # <<>>
  BY DEF ControlInv, Forms, Form, Inv, Types, Idle
<1>2. \/ stage[c] = "request" /\ todo[c] \in {<<SaveImage>>, <<Delete>>, <<Written>>}
      \/ stage[c] \in {"run", "final"} /\ todo[c] \in {Counting, <<Written>>}
      \/ stage[c] = "loop" /\ todo[c] \in {Measuring, Measured, Counting, <<Written>>}
  <2>1. stage[c] \in {"request", "run", "loop", "final"}
    BY <1>1, LeftByStage, Zenon DEF Stages, Loop, Pruning
  <2> QED
    BY <1>1, <2>1, LeftByStage, Zenon
<1>3. CASE stage[c] = "request" /\ todo[c] \in {<<SaveImage>>, <<Delete>>, <<Written>>}
  <2>1. todo[c] \notin {Measuring, Measured}
    BY <1>3, RequestLists, RecordingLists, Zenon
  <2>2. Stmt(c) = "insert image" \/ Stmt(c) = "delete job" \/ Stmt(c) = Commit
    BY <1>3, SavedSteps, Zenon
  <2> QED
    BY <1>3, <2>1, <2>2, Zenon DEF Pruning, Commit
<1>4. CASE stage[c] \in {"run", "final"} /\ todo[c] \in {Counting, <<Written>>}
  <2>1. todo[c] \notin {Measuring, Measured}
    BY <1>4, RecordingLists, Zenon
  <2>2. /\ Stmt(c) # "insert measurement"
        /\ Stmt(c) = "update job" => todo[c] = Counting
    BY <1>4, SavedSteps, Zenon DEF Commit
  <2> QED
    BY <1>4, <2>1, <2>2, Zenon DEF Pruning, Driving, Loop
<1>5. CASE stage[c] = "loop" /\ todo[c] \in {Measuring, Measured, Counting, <<Written>>}
  <2>1. /\ Stmt(c) = "insert measurement" => todo[c] = Measuring
        /\ Stmt(c) = "update job" => todo[c] = Counting
    BY <1>5, SavedSteps, Zenon DEF Commit
  <2> QED
    BY <1>5, <2>1, Zenon DEF Pruning, Driving, Loop
<1> QED
  BY <1>2, <1>3, <1>4, <1>5, Zenon

\* The rows of a job after a statement, in terms of the rows before it.
LEMMA BackedAfter ==
  ASSUME NEW stmt \in Statements, NEW k \in Jobs, NEW old \in RowSet, NEW new \in RowSet,
         Fields(stmt, k, old, new), last[k] \in Nat, Backed(old, k), new.path <= PathLen,
         stmt = "insert measurement" => old.measured < last[k],
         stmt = "update job" /\ old.row =>
           last[k] <= old.measured + One(k \in failed)
  PROVE  Backed(new, k)
<1>1. /\ old.measured \in Nat /\ old.progress \in Nat /\ old.failed \in BOOLEAN
      /\ new.measured \in Nat /\ new.progress \in Nat /\ new.failed \in BOOLEAN
      /\ One(old.failed) \in {0, 1} /\ One(new.failed) \in {0, 1}
  BY OneRange DEF RowSet
<1>2. 0 <= last[k] /\ 0 <= 0 + One(new.failed)
  <2>1. One(new.failed) = 0 \/ One(new.failed) = 1
    BY OneRange
  <2>2. PICK n \in Nat : n = last[k]
    BY Zenon
  <2>3. 0 <= n /\ 0 <= 0 + 0 /\ 0 <= 0 + 1
    BY ONLY n \in Nat
  <2> QED
    BY <2>1, <2>2, <2>3, Zenon
<1>3. CASE stmt = "insert job"
  <2>1. new.measured = 0 /\ new.progress = 0
    BY <1>3, Zenon DEF Fields
  <2> QED
    BY <1>2, <2>1, Zenon DEF Backed
<1>4. CASE stmt \in {"delete waypoints", "insert waypoint", "insert image"}
  <2>1. new.measured = old.measured /\ new.progress = old.progress /\ new.failed = old.failed
    BY <1>4, Zenon DEF Fields
  <2> QED
    BY <2>1, Zenon DEF Backed
<1>5. CASE stmt = "insert measurement"
  <2>1. new.measured = old.measured + 1 /\ new.progress = old.progress /\ new.failed = old.failed
    BY <1>5, Zenon DEF Fields
  <2>2. PICK m \in Nat, p \in Nat, f \in {0, 1}, n \in Nat :
          m = old.measured /\ p = old.progress /\ f = One(old.failed) /\ n = last[k]
    BY <1>1
  <2>3. p <= m + f /\ m < n
    BY <1>5, <2>2, Zenon DEF Backed
  <2>4. p <= (m + 1) + f /\ m + 1 <= n
    BY ONLY m \in Nat, p \in Nat, f \in {0, 1}, n \in Nat, <2>3
  <2> QED
    BY <2>1, <2>2, <2>4, Zenon DEF Backed
<1>6. CASE stmt = "update job"
  <2>1. /\ new.measured = old.measured
        /\ new.progress = (IF old.row THEN last[k] ELSE old.progress)
        /\ One(new.failed) = (IF old.row THEN One(k \in failed) ELSE One(old.failed))
    BY <1>6, Zenon DEF Fields
  <2>2. old.row => last[k] <= old.measured + One(k \in failed)
    BY <1>6, Zenon
  <2>3. new.progress <= new.measured + One(new.failed)
    BY <1>6, <2>1, <2>2, Zenon DEF Backed
  <2> QED
    BY <2>1, <2>3, Zenon DEF Backed
<1>7. CASE stmt = "delete job"
  <2>1. new = NoRows
    BY <1>7, Zenon DEF Fields
  <2>2. new.measured = 0 /\ new.progress = 0
    BY <2>1 DEF NoRows
  <2> QED
    BY <1>2, <2>2, Zenon DEF Backed
<1>8. CASE stmt = Commit
  <2>1. new = old
    BY <1>8, Zenon DEF Fields
  <2> QED
    BY <2>1, Zenon
<1> QED
  BY <1>3, <1>4, <1>5, <1>6, <1>7, <1>8, Zenon DEF Statements

LEMMA BackedExecute ==
  ASSUME Inv, Inv', ControlInv, WholeInv, ProgressInv, NEW c \in Clients, Execute(c)
  PROVE  Backed(visible'[target[c]], target[c]) /\ visible'[target[c]] \in Rows
<1>1. /\ target[c] \in Jobs /\ ~Idle(c)
  BY ControlOfExecute, Zenon
<1>2. Stmt(c) \in Statements /\ visible[target[c]] \in RowSet /\ UNCHANGED thread
  BY <1>1, RowsOfExecute, Zenon
<1>3. /\ visible'[target[c]] \in RowSet /\ last[target[c]] \in 0..PathLen /\ PathLen \in Nat
      /\ visible'[target[c]].progress <= last[target[c]]
      /\ ~visible'[target[c]].row => visible'[target[c]] = NoRows
  BY <1>1, <1>2, JobStoreAssumption DEF Inv, Types, Safe, NoOrphans, thread
<1>4. Backed(visible[target[c]], target[c])
  BY <1>1, Zenon DEF ProgressInv
<1>5. visible'[target[c]].path <= PathLen
  <2>1. CASE Saving(c)
    <3>1. /\ EndsOperation(c) => Stmt(c) = Commit
          /\ ~EndsOperation(c) => visible'[target[c]].path \in 0..PathLen
      BY <2>1, SavedSoFarStep, Zenon DEF WholeInv
    <3>2. Stmt(c) = Commit => visible'[target[c]] = visible[target[c]]
      BY <1>1, FieldsOfExecute, Zenon DEF Fields
    <3>3. Stmt(c) = Commit => visible'[target[c]].path <= PathLen
      BY <1>4, <3>2, Zenon DEF Backed
    <3>4. visible'[target[c]].path \in 0..PathLen => visible'[target[c]].path <= PathLen
      BY <1>3
    <3> QED
      BY <3>1, <3>3, <3>4, Zenon
  <2>2. CASE ~Saving(c)
    <3>1. visible'[target[c]].row => visible'[target[c]].path = visible[target[c]].path
      BY <2>2, SavedStepKeepsPath, Zenon
    <3>2. visible'[target[c]].row => visible'[target[c]].path <= PathLen
      BY <1>4, <3>1, Zenon DEF Backed
    <3>3. NoRows.path <= PathLen
      BY <1>3 DEF NoRows
    <3> QED
      BY <1>3, <3>2, <3>3, Zenon
  <2> QED
    BY <2>1, <2>2
<1>6. last[target[c]] \in Nat
  BY <1>3
<1>7. Stmt(c) = "insert measurement" => visible[target[c]].measured < last[target[c]]
  <2>1. CASE Saving(c)
    <3>1. Stmt(c) \in {"insert job", "delete waypoints", "insert waypoint", Commit}
      BY <2>1, SavingStatement, Zenon
    <3> QED
      BY <3>1, Zenon DEF Commit
  <2>2. CASE ~Saving(c)
    <3>1. Stmt(c) = "insert measurement" => todo[c] = Measuring /\ stage[c] \in Driving
      BY <1>1, <2>2, ThreadStatement, Zenon DEF Driving, Loop
    <3> QED
      BY <3>1, Zenon DEF ProgressInv, Driven
  <2> QED
    BY <2>1, <2>2
<1>8. Stmt(c) = "update job" /\ visible[target[c]].row =>
        last[target[c]] <= visible[target[c]].measured
                           + One(target[c] \in failed)
  <2>1. CASE Saving(c)
    <3>1. Stmt(c) \in {"insert job", "delete waypoints", "insert waypoint", Commit}
      BY <2>1, SavingStatement, Zenon
    <3> QED
      BY <3>1, Zenon DEF Commit
  <2>2. CASE ~Saving(c)
    <3> SUFFICES ASSUME Stmt(c) = "update job", visible[target[c]].row
                 PROVE  last[target[c]] <= visible[target[c]].measured
                                           + One(target[c] \in failed)
      OBVIOUS
    <3>1. todo[c] = Counting /\ stage[c] \in Driving /\ stage[c] # "except"
      BY <1>1, <2>2, ThreadStatement, Zenon
    <3>2. Driven(c)
      BY <3>1, Zenon DEF ProgressInv
    <3>3. last[target[c]] <= visible[target[c]].measured + One(Behind(c))
      BY <3>2, Zenon DEF Driven, Counted
    <3>4. Behind(c) => target[c] \in failed
      BY <3>1, RecordingLists, Zenon DEF Behind
    <3>5. visible[target[c]].measured \in Nat
      BY <1>2 DEF RowSet
    <3>6. /\ One(Behind(c)) = 0 \/ One(Behind(c)) = 1
          /\ One(target[c] \in failed) = 0 \/ One(target[c] \in failed) = 1
          /\ Behind(c) => One(target[c] \in failed) = 1
          /\ ~Behind(c) => One(Behind(c)) = 0
      BY <3>4, Zenon DEF One
    <3>7. PICK x \in {0, 1}, y \in {0, 1} :
            x = One(Behind(c)) /\ y = One(target[c] \in failed) /\ (x = 0 \/ y = 1)
      BY <3>6, Zenon
    <3>8. PICK m \in Nat, n \in Nat :
            m = visible[target[c]].measured /\ n = last[target[c]]
      BY <1>6, <3>5, Zenon
    <3>9. n <= m + x /\ (x = 0 \/ y = 1)
      BY <3>3, <3>7, <3>8, Zenon
    <3>10. n <= m + y
      BY ONLY x \in {0, 1}, y \in {0, 1}, m \in Nat, n \in Nat, <3>9
    <3> QED
      BY <3>7, <3>8, <3>10, Zenon
  <2> QED
    BY <2>1, <2>2
<1>9. Fields(Stmt(c), target[c], visible[target[c]], visible'[target[c]])
  BY <1>1, FieldsOfExecute, Zenon
<1>10. PICK s \in Statements, k \in Jobs, old \in RowSet, new \in RowSet :
         s = Stmt(c) /\ k = target[c] /\ old = visible[target[c]] /\ new = visible'[target[c]]
  BY <1>1, <1>2, <1>3, Zenon
<1>11. Backed(new, k)
  <2>1. /\ Fields(s, k, old, new) /\ last[k] \in Nat /\ Backed(old, k) /\ new.path <= PathLen
        /\ s = "insert measurement" => old.measured < last[k]
        /\ s = "update job" /\ old.row =>
             last[k] <= old.measured + One(k \in failed)
    BY <1>4, <1>5, <1>7, <1>8, <1>9, <1>6, <1>10, Zenon
  <2> QED
    BY <2>1, BackedAfter
<1>12. new \in Rows
  <2>1. new.path <= PathLen /\ new.measured <= last[k] /\ new.progress <= last[k]
    BY <1>3, <1>10, <1>11, Zenon DEF Backed
  <2>2. last[k] \in 0..PathLen
    BY <1>3, <1>10, Zenon
  <2> QED
    BY <2>1, <2>2, InRange
<1> QED
  BY <1>10, <1>11, <1>12, Zenon

\* The thread of a statement is where its measurements are.
LEMMA DrivenExecute ==
  ASSUME Inv, Inv', ControlInv, ProgressInv, NEW c \in Clients, Execute(c), stage[c] \in Driving
  PROVE  Driven(c)'
<1>1. /\ ~Idle(c) /\ target[c] \in Jobs /\ todo'[c] = Rest(c) /\ stage[c] # "request"
      /\ target'[c] = target[c] /\ stage' = stage
  <2>1. stage[c] # "request"
    BY Zenon DEF Driving, Loop
  <2> QED
    BY <2>1, ControlOfExecute, Zenon
<1>2. ~Saving(c)
  BY <1>1, ThreadJobs, Zenon DEF Saving
<1>3. /\ todo[c] \in {Measuring, Measured, Counting, <<Written>>}
      /\ stage[c] # "except"
      /\ todo[c] \in {Measuring, Measured} => stage[c] = "loop"
  BY <1>1, <1>2, ThreadStatement, Zenon
<1>4. Fields(Stmt(c), target[c], visible[target[c]], visible'[target[c]])
  BY <1>1, FieldsOfExecute, Zenon
<1>5. /\ durable' = (IF Stmt(c) = Commit THEN visible ELSE durable)
      /\ last' = last /\ failed' = failed
  BY <1>1, RowsOfExecute, Zenon DEF thread
<1>6. Driven(c)
  BY Zenon DEF ProgressInv
<1>7. PICK k \in Jobs : k = target[c]
  BY <1>1
<1>8. PICK v \in RowSet, f \in RowSet, w \in RowSet, n \in Nat :
        v = visible[k] /\ f = durable[k] /\ w = visible'[k] /\ n = last[k]
  BY <1>7, JobStoreAssumption DEF Inv, Types
<1>9. /\ Counted(visible[k], k, Behind(c)) /\ Counted(durable[k], k, Behind(c) \/ todo[c] = Measured)
      /\ durable'[k] = (IF Stmt(c) = Commit THEN v ELSE f)
      /\ stage'[c] = "except" => k \in failed'
      /\ target'[c] = k
  BY <1>1, <1>3, <1>5, <1>6, <1>7, <1>8, Zenon DEF Driven
<1>10. One(TRUE) = 1 /\ One(FALSE) = 0 /\ (TRUE \/ FALSE) = TRUE
  BY Zenon DEF One
<1>11. CASE todo[c] = Measuring
  <2>1. Stmt(c) = "insert measurement" /\ todo'[c] = Measured /\ stage[c] = "loop"
    BY <1>1, <1>3, <1>11, SavedSteps, Zenon
  <2>2. /\ w.row = v.row /\ w.measured = v.measured + 1 /\ durable'[k] = f
    BY <1>4, <1>7, <1>8, <1>9, <2>1, Zenon DEF Fields, Commit
  <2>3. Behind(c) /\ ~Behind(c)'
    BY <1>1, <1>11, <2>1, RecordingLists, Zenon DEF Behind
  <2>4. One(Behind(c)) = 1 /\ One(Behind(c) \/ todo[c] = Measured) = 1
    BY <2>3, Zenon DEF One
  <2>5. (v.row => n <= v.measured + 1) /\ (f.row => n <= f.measured + 1)
    BY <1>8, <1>9, <2>4, Zenon DEF Counted
  <2>6. w.row => n <= w.measured + 0
    <3>1. PICK m \in Nat : m = v.measured
      BY DEF RowSet
    <3>2. n <= m + 1 => n <= (m + 1) + 0
      BY ONLY m \in Nat, n \in Nat
    <3> QED
      BY <2>2, <2>5, <3>1, <3>2, Zenon
  <2>7. One(Behind(c))' = 0 /\ One(Behind(c) \/ todo[c] = Measured)' = 1
    BY <2>1, <2>3, Zenon DEF One, Measured, Written
  <2>8. /\ Counted(visible[k], k, Behind(c))'
        /\ Counted(durable[k], k, Behind(c) \/ todo[c] = Measured)'
    BY <1>5, <1>8, <2>2, <2>5, <2>6, <2>7, Zenon DEF Counted
  <2>9. todo'[c] # Measuring'
    BY <2>1, RecordingLists, Zenon DEF Measuring
  <2> QED
    BY <1>9, <2>8, <2>9, Zenon DEF Driven
<1>12. CASE todo[c] = Measured
  <2>1. Stmt(c) = Commit /\ todo'[c] = Counting /\ stage[c] = "loop"
    BY <1>1, <1>3, <1>12, SavedSteps, Zenon
  <2>2. w = v /\ durable'[k] = v
    BY <1>4, <1>7, <1>8, <1>9, <2>1, Zenon DEF Fields, Commit
  <2>3. ~Behind(c) /\ ~Behind(c)'
    BY <1>1, <1>12, <2>1, RecordingLists, Zenon DEF Behind
  <2>4. One(Behind(c)) = 0 /\ One(Behind(c))' = 0
    BY <2>3, Zenon DEF One
  <2>5. v.row => n <= v.measured + 0
    BY <1>8, <1>9, <2>4, Zenon DEF Counted
  <2>6. todo'[c] # Measuring' /\ todo'[c] # Measured'
    BY <2>1, RecordingLists, Zenon DEF Measuring, Measured, Written
  <2>7. One(Behind(c) \/ todo[c] = Measured)' = 0
    BY <2>3, <2>6, Zenon DEF One
  <2>8. /\ Counted(visible[k], k, Behind(c))'
        /\ Counted(durable[k], k, Behind(c) \/ todo[c] = Measured)'
    BY <1>5, <1>8, <2>2, <2>4, <2>5, <2>7, Zenon DEF Counted
  <2> QED
    BY <1>9, <2>6, <2>8, Zenon DEF Driven
<1>13. CASE todo[c] \in {Counting, <<Written>>}
  <2>1. /\ Stmt(c) = "update job" \/ Stmt(c) = Commit
        /\ todo'[c] \in {<<Written>>, <<>>}
    BY <1>1, <1>13, SavedSteps, Zenon
  <2>2. /\ w.row = v.row /\ w.measured = v.measured /\ durable'[k] \in {v, f}
    BY <1>4, <1>7, <1>8, <1>9, <2>1, Zenon DEF Fields, Commit
  <2>3. /\ todo[c] # Measuring /\ todo[c] # Measured
        /\ todo'[c] # Measuring' /\ todo'[c] # Measured'
    BY <1>13, <2>1, RecordingLists, Zenon DEF Measuring, Measured, Written
  <2>4. Behind(c)' <=> Behind(c)
    BY <1>1, <1>5, <2>3, Zenon DEF Behind
  <2>5. /\ One(Behind(c))' = One(Behind(c))
        /\ One(Behind(c) \/ todo[c] = Measured) = One(Behind(c))
        /\ One(Behind(c) \/ todo[c] = Measured)' = One(Behind(c))
    BY <2>3, <2>4, Zenon DEF One
  <2>6. /\ v.row => n <= v.measured + One(Behind(c))
        /\ f.row => n <= f.measured + One(Behind(c))
    BY <1>8, <1>9, <2>5, Zenon DEF Counted
  <2>7. /\ Counted(visible[k], k, Behind(c))'
        /\ Counted(durable[k], k, Behind(c) \/ todo[c] = Measured)'
    BY <1>5, <1>8, <2>2, <2>5, <2>6, Zenon DEF Counted
  <2> QED
    BY <1>9, <2>3, <2>7, Zenon DEF Driven
<1> QED
  BY <1>3, <1>11, <1>12, <1>13, Zenon

LEMMA ProgressExecute ==
  ASSUME Inv, Inv', ControlInv, WholeInv, ProgressInv, NEW c \in Clients, Execute(c)
  PROVE  ProgressInv'
<1>1. /\ target[c] \in Jobs /\ ~Idle(c) /\ stage' = stage /\ lock \in {NoOne, c}
      /\ \A d \in Clients \ {c} : todo'[d] = todo[d] /\ target'[d] = target[d]
  BY ControlOfExecute, Zenon
<1>2. /\ \A k \in Jobs \ {target[c]} : visible'[k] = visible[k] /\ acked'[k] = acked[k]
      /\ durable' = (IF Stmt(c) = Commit THEN visible ELSE durable)
      /\ acked'[target[c]] = (IF Stmt(c) = "delete job" THEN NoRows
                              ELSE IF EndsOperation(c) THEN visible'[target[c]]
                              ELSE acked[target[c]])
      /\ last' = last /\ failed' = failed
  BY <1>1, RowsOfExecute, Zenon DEF thread
<1>3. Backed(visible'[target[c]], target[c]) /\ visible'[target[c]] \in Rows
  BY BackedExecute
<1>4. \A k \in Jobs : Backed(visible[k], k) /\ Backed(durable[k], k) /\ acked[k] \in Rows
  BY Zenon DEF ProgressInv
<1>5. NoRows \in Rows
  BY JobStoreAssumption DEF NoRows, Rows
<1>6. \A k \in Jobs : Backed(visible'[k], k) /\ Backed(durable'[k], k) /\ acked'[k] \in Rows
  BY <1>2, <1>3, <1>4, <1>5, Zenon
<1>7. \A k \in Jobs : (Backed(visible[k], k) /\ Backed(durable[k], k))'
  BY <1>2, <1>6, Zenon DEF Backed
<1>8. ASSUME NEW d \in Clients, stage'[d] \in Driving
      PROVE  Driven(d)'
  <2>1. stage[d] \in Driving /\ Driven(d) /\ stage[d] # "request"
    BY <1>1, <1>8, Zenon DEF ProgressInv, Driving, Loop
  <2>2. CASE d = c
    BY <2>1, <2>2, DrivenExecute
  <2>3. CASE d # c
    <3>1. target[d] \in Jobs /\ visible[target[d]] \in RowSet /\ durable[target[d]] \in RowSet
      BY <2>1, ThreadJobs DEF Inv, Types
    <3>2. Like(visible'[target[d]], visible[target[d]])
      <4>1. CASE target[d] # target[c]
        BY <1>2, <3>1, <4>1, LikeItself, Zenon
      <4>2. CASE target[d] = target[c]
        <5>1. ~Saving(c) /\ stage[c] = "request"
          BY <2>1, <2>3, <4>2, Zenon DEF ControlInv, Alone
        <5>2. Stmt(c) = "insert image" \/ Stmt(c) = "delete job" \/ Stmt(c) = Commit
          BY <1>1, <5>1, ThreadStatement, Zenon
        <5>3. Fields(Stmt(c), target[c], visible[target[c]], visible'[target[c]])
          BY <1>1, FieldsOfExecute, Zenon
        <5>4. CASE Stmt(c) = "insert image" \/ Stmt(c) = Commit
          <6>1. /\ visible'[target[c]].row = visible[target[c]].row
                /\ visible'[target[c]].measured = visible[target[c]].measured
            BY <5>3, <5>4, Zenon DEF Fields
          <6>2. Like(visible[target[c]], visible[target[c]])
            BY <3>1, <4>2, LikeItself, Zenon
          <6> QED
            BY <4>2, <6>1, <6>2, Zenon DEF Like
        <5>5. CASE Stmt(c) = "delete job"
          <6>1. visible'[target[c]] = NoRows
            BY <5>3, <5>5, Zenon DEF Fields
          <6> QED
            BY <3>1, <4>2, <6>1, LikeItself, Zenon
        <5> QED
          BY <5>2, <5>4, <5>5, Zenon
      <4> QED
        BY <4>1, <4>2
    <3>3. durable'[target[d]] \in {visible[target[d]], durable[target[d]]}
      BY <1>2, Zenon
    <3> QED
      BY <1>1, <1>2, <2>1, <2>3, <3>1, <3>2, <3>3, DrivenFrame, Zenon
  <2> QED
    BY <2>2, <2>3
<1>9. \A d \in Clients : stage'[d] \in Driving' => Driven(d)'
  BY <1>8, Zenon DEF Driving, Loop
<1> QED
  BY <1>6, <1>7, <1>9, Zenon DEF ProgressInv, Rows

LEMMA ProgressRaise ==
  ASSUME Inv, Inv', ControlInv, ProgressInv, NEW c \in Clients, MayRun(c), Raise(c),
         visible' \in {visible, durable}
  PROVE  ProgressInv'
<1>1. /\ todo \in [Clients -> Seq(Transactions)] /\ target \in [Clients -> 0..created]
      /\ stage \in [Clients -> Stages]
  BY DEF Inv, Types
<1>2. /\ todo'[c] = <<>> /\ durable' = durable /\ acked' = acked /\ last' = last
      /\ stage'[c] = (IF stage[c] = "loop" THEN "except" ELSE "request")
      /\ stage'[c] # "request" => target'[c] = target[c]
      /\ \A d \in Clients \ {c} :
           todo'[d] = todo[d] /\ target'[d] = target[d] /\ stage'[d] = stage[d]
      /\ failed' = IF stage[c] = "loop" THEN failed \cup {target[c]} ELSE failed
  BY <1>1 DEF Raise, AfterException
<1>3. \A k \in Jobs : /\ Backed(visible'[k], k) /\ Backed(durable'[k], k) /\ acked'[k] \in Rows
                      /\ visible'[k] \in {visible[k], durable[k]}
  BY <1>2, Zenon DEF ProgressInv
<1>4. \A k \in Jobs : (Backed(visible[k], k) /\ Backed(durable[k], k))'
  BY <1>2, <1>3, Zenon DEF Backed
<1>5. \A d \in Clients \ {c} : todo[d] # Measured
  <2>1. \A d \in Clients \ {c} : ~Open(d)
    BY OthersClosed, Zenon DEF MayRun
  <2>2. \A d \in Clients : todo[d] = Measured => Open(d)
    BY SavedSteps, Zenon DEF Open, Opening, Commit
  <2> QED
    BY <2>1, <2>2
<1>6. ASSUME NEW d \in Clients, stage'[d] \in Driving
      PROVE  Driven(d)'
  <2>1. CASE d # c
    <3>1. stage[d] \in Driving /\ Driven(d) /\ stage[d] # "request"
      BY <1>2, <1>6, <2>1, Zenon DEF ProgressInv, Driving, Loop
    <3>2. target[d] \in Jobs /\ visible[target[d]] \in RowSet /\ durable[target[d]] \in RowSet
      BY <3>1, ThreadJobs DEF Inv, Types
    <3>3. target[d] \in failed' <=> target[d] \in failed
      <4>1. stage[c] = "loop" => target[d] # target[c]
        BY <2>1, <3>1, Zenon DEF ControlInv, Alone
      <4> QED
        BY <1>2, <4>1
    <3>4. \/ Like(visible'[target[d]], visible[target[d]])
          \/ todo[d] # Measured /\ Like(visible'[target[d]], durable[target[d]])
      BY <1>3, <1>5, <2>1, <3>2, LikeItself, Zenon
    <3>5. durable'[target[d]] \in {visible[target[d]], durable[target[d]]}
      BY <1>2, Zenon
    <3> QED
      BY <1>2, <2>1, <3>1, <3>2, <3>3, <3>4, <3>5, DrivenFrame, Zenon
  <2>2. CASE d = c
    <3>1. stage[c] = "loop" /\ stage'[c] = "except" /\ target'[c] = target[c] /\ Driven(c)
      BY <1>2, <1>6, <2>2, Zenon DEF Driving, Loop, ProgressInv
    <3>2. PICK k \in Jobs : k = target[c]
      BY <3>1, ThreadJobs
    <3>3. PICK v \in RowSet, f \in RowSet, n \in Nat :
            v = visible[k] /\ f = durable[k] /\ n = last[k]
      BY JobStoreAssumption DEF Inv, Types
    <3>4. /\ v.row => n <= v.measured + 1
          /\ f.row => n <= f.measured + 1
      <4>1. /\ Counted(visible[k], k, Behind(c))
            /\ Counted(durable[k], k, Behind(c) \/ todo[c] = Measured)
        BY <3>1, <3>2, Zenon DEF Driven
      <4> DEFINE p == One(Behind(c))
                 q == One(Behind(c) \/ todo[c] = Measured)
      <4>2. (p = 0 \/ p = 1) /\ (q = 0 \/ q = 1)
        BY OneRange
      <4> HIDE DEF p, q
      <4>3. (v.row => n <= v.measured + p) /\ (f.row => n <= f.measured + q)
        BY <3>3, <4>1, Zenon DEF Counted, p, q
      <4>4. PICK m \in Nat, o \in Nat : m = v.measured /\ o = f.measured
        BY DEF RowSet
      <4>5. /\ n <= m + p => n <= m + 1
            /\ n <= o + q => n <= o + 1
        BY ONLY m \in Nat, o \in Nat, n \in Nat, <4>2
      <4> QED
        BY <4>3, <4>4, <4>5, Zenon
    <3>5. Behind(c)' /\ k \in failed'
      BY <1>2, <3>1, <3>2, Zenon DEF Behind
    <3>6. One(Behind(c))' = 1 /\ One(Behind(c) \/ todo[c] = Measured)' = 1
      BY <3>5, Zenon DEF One
    <3>7. /\ Counted(visible[k], k, Behind(c))'
          /\ Counted(durable[k], k, Behind(c) \/ todo[c] = Measured)'
      BY <1>2, <1>3, <3>3, <3>4, <3>6, Zenon DEF Counted
    <3>8. todo'[c] # Measuring'
      BY <1>2, RecordingLists, Zenon DEF Measuring
    <3> QED
      BY <2>2, <3>1, <3>2, <3>5, <3>7, <3>8, Zenon DEF Driven
  <2> QED
    BY <2>1, <2>2
<1>7. \A d \in Clients : stage'[d] \in Driving' => Driven(d)'
  BY <1>6, Zenon DEF Driving, Loop
<1> QED
  BY <1>3, <1>4, <1>7, Zenon DEF ProgressInv, Rows

LEMMA ProgressPrune ==
  ASSUME Inv, Inv', ControlInv, ProgressInv, NEW c \in Clients, Prune(c)
  PROVE  ProgressInv'
<1>1. /\ UNCHANGED <<todo, last, failed>> /\ LockFree
      /\ stage'[c] \in {"request"} \cup Pruning
      /\ \A d \in Clients \ {c} : target'[d] = target[d] /\ stage'[d] = stage[d]
  <2>1. UNCHANGED <<todo, last, failed>> /\ LockFree
    BY DEF Prune, PruneCount, PruneSelect, PruneDelete, PruneCommit, PruneFails
  <2>2. PICK to \in {"request"} \cup Pruning : GoPrune(c, to)
    BY DEF Prune, PruneCount, PruneSelect, PruneDelete, PruneCommit, PruneFails, Pruning
  <2>3. target \in [Clients -> 0..created] /\ stage \in [Clients -> Stages]
    BY DEF Inv, Types
  <2> QED
    BY <2>1, <2>2, <2>3 DEF GoPrune
<1>2. \A k \in Jobs : /\ visible'[k] \in {visible[k], durable[k], NoRows}
                      /\ durable'[k] \in {visible[k], durable[k]}
                      /\ acked'[k] \in {acked[k], NoRows}
  <2>1. CASE PruneDelete(c)
    BY <2>1 DEF PruneDelete
  <2>2. CASE PruneCount(c) \/ PruneSelect(c) \/ PruneCommit(c) \/ PruneFails(c)
    BY <2>2 DEF PruneCount, PruneSelect, PruneCommit, PruneFails, db, history
  <2> QED
    BY <2>1, <2>2 DEF Prune
<1>3. ASSUME NEW k \in Jobs
      PROVE  Backed(NoRows, k) /\ NoRows \in Rows
  <2>1. last[k] \in 0..PathLen /\ PathLen \in Nat
    BY JobStoreAssumption DEF Inv, Types
  <2>2. /\ NoRows \in Rows
        /\ NoRows.path = 0 /\ NoRows.measured = 0 /\ NoRows.progress = 0 /\ NoRows.failed = FALSE
    BY <2>1 DEF NoRows, Rows
  <2>3. One(FALSE) = 0
    BY Zenon DEF One
  <2>4. 0 <= PathLen /\ 0 <= last[k] /\ 0 <= 0 + 0
    BY <2>1
  <2> QED
    BY <2>2, <2>3, <2>4, Zenon DEF Backed
<1>4. \A k \in Jobs : Backed(visible'[k], k) /\ Backed(durable'[k], k) /\ acked'[k] \in Rows
  BY <1>2, <1>3, Zenon DEF ProgressInv
<1>5. \A k \in Jobs : (Backed(visible[k], k) /\ Backed(durable[k], k))'
  BY <1>1, <1>4, Zenon DEF Backed
<1>6. \A d \in Clients : todo[d] # Measured
  <2>1. \A d \in Clients : ~Open(d)
    BY <1>1, NobodyOpen, Zenon
  <2>2. \A d \in Clients : todo[d] = Measured => Open(d)
    BY SavedSteps, Zenon DEF Open, Opening, Commit
  <2> QED
    BY <2>1, <2>2
<1>7. ASSUME NEW d \in Clients, stage'[d] \in Driving
      PROVE  Driven(d)'
  <2>1. d # c
    BY <1>1, <1>7, Zenon DEF Driving, Loop, Pruning
  <2>2. stage[d] \in Driving /\ Driven(d) /\ stage[d] # "request"
    BY <1>1, <1>7, <2>1, Zenon DEF ProgressInv, Driving, Loop
  <2>3. target[d] \in Jobs /\ visible[target[d]] \in RowSet /\ durable[target[d]] \in RowSet
    BY <2>2, ThreadJobs DEF Inv, Types
  <2>4. \/ Like(visible'[target[d]], visible[target[d]])
        \/ Like(visible'[target[d]], durable[target[d]])
    BY <1>2, <2>3, LikeItself, Zenon
  <2>5. durable'[target[d]] \in {visible[target[d]], durable[target[d]]}
    BY <1>2, <2>3, Zenon
  <2> QED
    BY <1>1, <1>6, <2>1, <2>2, <2>3, <2>4, <2>5, DrivenFrame, Zenon
<1>8. \A d \in Clients : stage'[d] \in Driving' => Driven(d)'
  BY <1>7, Zenon DEF Driving, Loop
<1> QED
  BY <1>4, <1>5, <1>8, Zenon DEF ProgressInv, Rows

\* What the calls of a thread do to its Job object.
LEMMA ProgressCalls ==
  ASSUME Inv, Inv', ControlInv, ProgressInv, NEW c \in Clients,
         \/ CreateJob(c) \/ RunJob(c) \/ DeleteJob(c)
         \/ RecordWaypoint(c) \/ StoreOutcome(c)
  PROVE  ProgressInv'
<1>1. /\ Idle(c) /\ UNCHANGED <<visible, durable, acked>>
      /\ \A d \in Clients \ {c} :
           todo'[d] = todo[d] /\ target'[d] = target[d] /\ stage'[d] = stage[d]
  BY Calls, Zenon
<1>2. /\ todo \in [Clients -> Seq(Transactions)] /\ target \in [Clients -> 0..created]
      /\ stage \in [Clients -> Stages] /\ last \in [Jobs -> 0..PathLen] /\ PathLen \in Nat
      /\ \A k \in Jobs : visible[k] \in RowSet /\ durable[k] \in RowSet
  BY JobStoreAssumption DEF Inv, Types
<1>3. todo[c] # Measuring /\ todo[c] # Measured
  BY <1>1, RecordingLists, Zenon DEF Idle
\* Only threads touch Job objects, and each its own.
<1>4. /\ \A k \in Jobs : last[k] <= last'[k]
      /\ \A k \in Jobs : last'[k] # last[k] => k = target[c] /\ stage[c] # "request"
      /\ \A k \in Jobs : (k \in failed' <=> k \in failed) \/ (k = target[c] /\ stage[c] # "request")
      /\ failed \subseteq failed'
  <2>1. CASE CreateJob(c) \/ RunJob(c) \/ DeleteJob(c)
    <3>1. last' = last /\ failed' = failed
      BY <2>1 DEF CreateJob, RunJob, DeleteJob, thread
    <3> QED
      BY <1>2, <3>1
  <2>2. CASE RecordWaypoint(c)
    <3>1. /\ stage[c] # "request" /\ failed' = failed
          /\ last' = [last EXCEPT ![target[c]] = last[target[c]] + 1]
      BY <2>2 DEF RecordWaypoint, Loop
    <3> QED
      BY <1>2, <3>1
  <2>3. CASE StoreOutcome(c)
    <3>1. /\ stage[c] # "request" /\ failed' \in {failed, failed \cup {target[c]}} /\ last' = last
      BY <2>3 DEF StoreOutcome, Loop
    <3> QED
      BY <1>2, <3>1
  <2> QED
    BY <2>1, <2>2, <2>3
<1>5. ASSUME NEW k \in Jobs
      PROVE  (Backed(visible[k], k) /\ Backed(durable[k], k))' /\ acked'[k] \in Rows
  <2>1. Backed(visible[k], k) /\ Backed(durable[k], k) /\ acked[k] \in Rows
    BY Zenon DEF ProgressInv
  <2>2. PICK v \in RowSet, f \in RowSet : v = visible[k] /\ f = durable[k]
    BY <1>2
  <2>3. PICK n \in Nat, m \in Nat : n = last[k] /\ m = last'[k] /\ n <= m
    BY <1>2, <1>4 DEF Inv, Types
  <2>4. v.measured \in Nat /\ f.measured \in Nat
    BY DEF RowSet
  <2>5. v.measured <= n /\ f.measured <= n
    BY <2>1, <2>2, <2>3, Zenon DEF Backed
  <2>6. v.measured <= m /\ f.measured <= m
    BY ONLY n \in Nat, m \in Nat, <2>3, <2>4, <2>5
  <2> QED
    BY <1>1, <2>1, <2>2, <2>3, <2>6, Zenon DEF Backed
<1>6. ASSUME NEW d \in Clients \ {c}, stage'[d] \in Driving
      PROVE  Driven(d)'
  <2>1. stage[d] \in Driving /\ Driven(d) /\ stage[d] # "request"
    BY <1>1, <1>6, Zenon DEF ProgressInv, Driving, Loop
  <2>2. target[d] \in Jobs /\ visible[target[d]] \in RowSet
    BY <1>2, <2>1, ThreadJobs
  <2>3. stage[c] # "request" => target[d] # target[c]
    BY <2>1, Zenon DEF ControlInv, Alone
  <2>4. last'[target[d]] = last[target[d]] /\ (target[d] \in failed' <=> target[d] \in failed)
    BY <1>4, <2>2, <2>3, Zenon
  <2>5. Like(visible'[target[d]], visible[target[d]])
    BY <1>1, <2>2, LikeItself, Zenon
  <2>6. durable'[target[d]] \in {visible[target[d]], durable[target[d]]}
    BY <1>1, Zenon
  <2> QED
    BY <1>1, <2>1, <2>2, <2>4, <2>5, <2>6, DrivenFrame, Zenon
<1>7. ASSUME stage'[c] \in Driving
      PROVE  Driven(c)'
  <2>1. CASE CreateJob(c) \/ DeleteJob(c)
    <3>1. stage'[c] = "request"
      BY <1>2, <2>1 DEF CreateJob, DeleteJob, Start, thread
    <3> QED
      BY <1>7, <3>1, Zenon DEF Driving, Loop
  <2>2. CASE RunJob(c)
    <3>1. PICK j \in saved \ started : Start(c, j, Counting)
      BY <2>2 DEF RunJob, Counting
    <3>2. /\ todo'[c] = Counting /\ target'[c] = j /\ stage'[c] = "run" /\ last' = last
      BY <1>2, <2>2, <3>1 DEF Start, Call, RunJob
    <3>3. j \in Jobs /\ last[j] = 0
      BY <3>1, JobStoreAssumption DEF Inv, Types, Work, Jobs
    <3>4. PICK v \in RowSet, f \in RowSet : v = visible[j] /\ f = durable[j]
      BY <1>2, <3>3
    <3>5. todo'[c] # Measuring' /\ todo'[c] # Measured'
      BY <3>2, RecordingLists, Zenon DEF Measuring, Measured, Written
    <3>6. ~Behind(c)'
      BY <3>2, <3>5, Zenon DEF Behind
    <3>7. One(Behind(c))' = 0 /\ One(Behind(c) \/ todo[c] = Measured)' = 0
      BY <3>5, <3>6, Zenon DEF One
    <3>8. 0 <= v.measured + 0 /\ 0 <= f.measured + 0
      <4>1. v.measured \in Nat /\ f.measured \in Nat
        BY DEF RowSet
      <4> QED
        BY ONLY <4>1
    <3>9. /\ Counted(visible[j], j, Behind(c))'
          /\ Counted(durable[j], j, Behind(c) \/ todo[c] = Measured)'
      BY <1>1, <3>2, <3>3, <3>4, <3>7, <3>8, Zenon DEF Counted
    <3> QED
      BY <3>2, <3>5, <3>9, Zenon DEF Driven
  <2>3. ASSUME RecordWaypoint(c) \/ StoreOutcome(c)
        PROVE  /\ stage[c] \in Driving /\ target'[c] = target[c] /\ target[c] \in Jobs /\ Driven(c)
               /\ stage[c] # "final"
    <3>1. stage[c] \in Loop \cup {"except"} /\ target' = target
      BY <2>3 DEF RecordWaypoint, StoreOutcome
    <3>2. stage[c] \in Driving /\ stage[c] # "request" /\ stage[c] # "final"
      BY <3>1, Zenon DEF Driving, Loop
    <3> QED
      BY <3>1, <3>2, ThreadJobs, Zenon DEF ProgressInv
  <2>4. CASE RecordWaypoint(c)
    <3>1. PICK k \in Jobs : k = target[c] /\ target'[c] = k
      BY <2>3, <2>4
    <3>2. PICK v \in RowSet, f \in RowSet, n \in Nat :
            v = visible[k] /\ f = durable[k] /\ n = last[k]
      BY <1>2
    <3>3. stage[c] \in Loop /\ stage'[c] = "loop" /\ todo'[c] = Measuring /\ last'[k] = n + 1
      BY <1>2, <2>4, <3>1, <3>2 DEF RecordWaypoint, Call, Measuring
    <3>4. ~Behind(c)
      BY <1>3, <3>3, Zenon DEF Behind, Loop
    <3>5. One(Behind(c)) = 0 /\ One(Behind(c) \/ todo[c] = Measured) = 0
      BY <1>3, <3>4, Zenon DEF One
    <3>6. (v.row => n <= v.measured + 0) /\ (f.row => n <= f.measured + 0)
      BY <2>3, <2>4, <3>1, <3>2, <3>5, Zenon DEF Driven, Counted
    <3>7. v.measured <= n /\ f.measured <= n
      BY <3>1, <3>2, Zenon DEF ProgressInv, Backed
    <3>8. PICK m \in Nat, o \in Nat : m = v.measured /\ o = f.measured
      BY DEF RowSet
    <3>9. /\ m <= n => m < n + 1
          /\ o <= n => o < n + 1
          /\ n <= m + 0 => n + 1 <= m + 1
          /\ n <= o + 0 => n + 1 <= o + 1
      BY ONLY m \in Nat, n \in Nat, o \in Nat
    <3>10. Behind(c)'
      BY <3>3, Zenon DEF Behind, Measuring
    <3>11. One(Behind(c))' = 1 /\ One(Behind(c) \/ todo[c] = Measured)' = 1
      BY <3>10, Zenon DEF One
    <3>12. /\ Counted(visible[k], k, Behind(c))'
           /\ Counted(durable[k], k, Behind(c) \/ todo[c] = Measured)'
      BY <1>1, <3>2, <3>3, <3>6, <3>8, <3>9, <3>11, Zenon DEF Counted
    <3>13. visible'[k].measured < last'[k] /\ durable'[k].measured < last'[k]
      BY <1>1, <3>2, <3>3, <3>7, <3>8, <3>9, Zenon
    <3> QED
      BY <3>1, <3>3, <3>12, <3>13, Zenon DEF Driven
  <2>5. CASE StoreOutcome(c)
    <3>1. PICK k \in Jobs : k = target[c] /\ target'[c] = k
      BY <2>3, <2>5
    <3>2. PICK v \in RowSet, f \in RowSet, n \in Nat :
            v = visible[k] /\ f = durable[k] /\ n = last[k]
      BY <1>2
    <3>3. /\ stage[c] \in Loop \cup {"except"} /\ stage'[c] = "final" /\ todo'[c] = Counting
          /\ last' = last /\ (k \in failed => k \in failed')
      BY <1>2, <2>5, <3>1 DEF StoreOutcome, Call, Counting
    <3>4. todo'[c] # Measuring' /\ todo'[c] # Measured'
      BY <3>3, RecordingLists, Zenon DEF Measuring, Measured, Written
    <3>5. Behind(c) => Behind(c)'
      <4>1. Behind(c) => stage[c] = "except"
        BY <1>3, <3>3, Zenon DEF Behind, Loop
      <4>2. stage[c] = "except" => k \in failed
        BY <2>3, <2>5, <3>1, Zenon DEF Driven
      <4> QED
        BY <3>1, <3>3, <4>1, <4>2, Zenon DEF Behind
    <3>6. PICK p \in {0, 1}, q \in {0, 1} :
            p = One(Behind(c)) /\ q = One(Behind(c))' /\ (p = 0 \/ q = 1)
      <4>1. /\ One(Behind(c)) = 0 \/ One(Behind(c)) = 1
            /\ One(Behind(c))' = 0 \/ One(Behind(c))' = 1
            /\ Behind(c)' => One(Behind(c))' = 1
            /\ ~Behind(c) => One(Behind(c)) = 0
        BY Zenon DEF One
      <4> QED
        BY <3>5, <4>1, Zenon
    <3>7. /\ One(Behind(c) \/ todo[c] = Measured) = p
          /\ One(Behind(c) \/ todo[c] = Measured)' = q
      BY <1>3, <3>4, <3>6, Zenon DEF One
    <3>8. (v.row => n <= v.measured + p) /\ (f.row => n <= f.measured + p)
      BY <2>3, <2>5, <3>1, <3>2, <3>6, <3>7, Zenon DEF Driven, Counted
    <3>9. PICK m \in Nat, o \in Nat : m = v.measured /\ o = f.measured
      BY DEF RowSet
    <3>10. /\ n <= m + p => n <= m + q
           /\ n <= o + p => n <= o + q
      BY ONLY m \in Nat, n \in Nat, o \in Nat, p \in {0, 1}, q \in {0, 1}, <3>6
    <3>11. /\ Counted(visible[k], k, Behind(c))'
           /\ Counted(durable[k], k, Behind(c) \/ todo[c] = Measured)'
      BY <1>1, <3>2, <3>3, <3>6, <3>7, <3>8, <3>9, <3>10, Zenon DEF Counted
    <3> QED
      BY <3>1, <3>3, <3>4, <3>11, Zenon DEF Driven
  <2> QED
    BY <2>1, <2>2, <2>4, <2>5
<1>8. \A d \in Clients : stage'[d] \in Driving' => Driven(d)'
  BY <1>6, <1>7, Zenon DEF Driving, Loop
<1> QED
  BY <1>5, <1>8, Zenon DEF ProgressInv, Rows

LEMMA ProgressStep ==
  Inv /\ ControlInv /\ WholeInv /\ ProgressInv /\ [Next]_vars => ProgressInv'
<1> SUFFICES ASSUME Inv, ControlInv, WholeInv, ProgressInv, [Next]_vars PROVE ProgressInv'
  OBVIOUS
<1>1. Inv'
  BY InvStep
<1>2. ASSUME NEW c \in Clients, RefuseOrphan(c) \/ FailStatement(c) PROVE ProgressInv'
  <2>1. MayRun(c) /\ Raise(c) /\ visible' \in {visible, durable}
    BY <1>2 DEF RefuseOrphan, FailStatement
  <2> QED
    BY <1>1, <2>1, ProgressRaise
<1>3. CASE Crash
  <2>1. /\ visible' = durable /\ durable' = durable /\ acked' = acked /\ last' = last
        /\ \A d \in Clients : stage'[d] = "request"
    BY <1>3 DEF Crash
  <2>2. \A k \in Jobs : (Backed(visible[k], k) /\ Backed(durable[k], k))' /\ acked'[k] \in Rows
    BY <2>1, Zenon DEF ProgressInv, Backed
  <2>3. \A d \in Clients : stage'[d] \notin Driving'
    BY <2>1, Zenon DEF Driving, Loop
  <2> QED
    BY <2>2, <2>3, Zenon DEF ProgressInv, Rows
<1>4. CASE UNCHANGED vars
  <2>1. UNCHANGED <<visible, durable, acked, last, failed, stage, todo, target>>
    BY <1>4 DEF vars, db, work, thread, history
  <2>2. \A k \in Jobs : (Backed(visible[k], k) /\ Backed(durable[k], k))' /\ acked'[k] \in Rows
    BY <2>1, Zenon DEF ProgressInv, Backed
  <2>3. \A d \in Clients : Driven(d) => Driven(d)'
    BY <2>1, Zenon DEF Driven, Counted, Behind, Measuring, Measured, Written
  <2>4. \A d \in Clients : stage'[d] \in Driving' => Driven(d)'
    BY <2>1, <2>3, Zenon DEF ProgressInv, Driving, Loop
  <2> QED
    BY <2>2, <2>4, Zenon DEF ProgressInv, Rows
<1> QED
  BY <1>1, <1>2, <1>3, <1>4, ProgressCalls, ProgressExecute, ProgressPrune DEF Next, Client

LEMMA ProgressInit == Init => ProgressInv
<1> SUFFICES ASSUME Init PROVE ProgressInv
  OBVIOUS
<1>1. NoRows \in Rows
  BY JobStoreAssumption DEF NoRows, Rows
<1>2. \A j \in Jobs : visible[j] = NoRows /\ durable[j] = NoRows /\ acked[j] = NoRows /\ last[j] = 0
  BY DEF Init
<1>3. /\ NoRows.path <= PathLen /\ NoRows.measured <= 0
      /\ NoRows.progress <= NoRows.measured + One(NoRows.failed)
  <2>1. NoRows.path = 0 /\ NoRows.measured = 0 /\ NoRows.progress = 0 /\ NoRows.failed = FALSE
    BY DEF NoRows
  <2>2. One(FALSE) = 0
    BY Zenon DEF One
  <2>3. 0 <= PathLen /\ 0 <= 0 /\ 0 <= 0 + 0
    BY JobStoreAssumption
  <2> QED
    BY <2>1, <2>2, <2>3, Zenon
<1>4. \A c \in Clients : stage[c] \notin Driving
  BY DEF Init, Driving, Loop
<1> QED
  BY <1>1, <1>2, <1>3, <1>4, Zenon DEF ProgressInv, Backed

\* A restart finds no progress without its measurement, except that of a failed job, which
\* may count the waypoint at which it failed: the waypoint is counted in the Job object
\* before its measurement is inserted, but the only state stored without the measurement is
\* that of the finally block after a failure.
THEOREM ProgressStaysBacked == Spec => []ProgressIsBacked
<1>1. ProgressInv => ProgressIsBacked
  BY Zenon DEF ProgressInv, Backed, ProgressIsBacked, One
<1>2. Spec => []ProgressInv
  BY InvInit, InvStep, ControlInit, ControlStep, WholeInit, WholeStep, ProgressInit,
     ProgressStep, PTL DEF Spec
<1> QED
  BY <1>1, <1>2, PTL

-----------------------------------------------------------------------------
(* Retention.                                                              *)

\* As long as no row went away between a count and a selection, what a prune_jobs counted
\* is still stored when it selects, and what it selected has MaxJobs younger jobs for good.
Kept ==
  /\ \A c \in Clients : stage[c] = "select" => Cardinality(Stored) >= excess[c] + MaxJobs
  /\ \A c \in Clients : stage[c] = "delete" => \A j \in ids[c] : created - j >= MaxJobs
  /\ \A j \in saved \ deleted : Young(j) => acked[j].row

RetentionInv ==
  /\ excess \in [Clients -> Nat] /\ ids \in [Clients -> SUBSET Jobs]
  /\ deleted \subseteq saved /\ stale \in BOOLEAN /\ faults \in 0..MaxFaults
  /\ \A j \in Jobs : visible[j].row \/ durable[j].row => j <= created
  /\ ~stale => Kept

\* Of n + m jobs numbered up to top, one that has fewer than n older ones has at least
\* m younger ones.
LEMMA OldOnes ==
  ASSUME NEW top \in Nat, NEW S \in SUBSET (1..top), NEW j \in S, NEW n \in Nat, NEW m \in Nat,
         Cardinality(S) >= n + m, Cardinality({k \in S : k < j}) < n
  PROVE  top - j >= m
<1> DEFINE A == {k \in S : k < j}
           B == j..top
<1>1. j \in Int /\ top \in Int /\ 1 \in Int /\ j <= top
  OBVIOUS
<1>2. IsFiniteSet(1..top) /\ IsFiniteSet(B) /\ Cardinality(B) = top - j + 1
  BY <1>1, FS_Interval
<1>3. IsFiniteSet(S) /\ IsFiniteSet(A)
  <2>1. IsFiniteSet(S)
    BY <1>2, FS_Subset
  <2>2. A \in SUBSET S
    OBVIOUS
  <2> QED
    BY <2>1, <2>2, FS_Subset
<1>4. S \in SUBSET (A \cup B)
  OBVIOUS
<1>5. /\ IsFiniteSet(A \cup B)
      /\ Cardinality(A \cup B) = Cardinality(A) + Cardinality(B) - Cardinality(A \cap B)
  BY <1>2, <1>3, FS_Union
<1>6. IsFiniteSet(A \cap B)
  <2>1. A \cap B \in SUBSET A
    OBVIOUS
  <2> QED
    BY <1>3, <2>1, FS_Subset
<1>7. /\ Cardinality(A) \in Nat /\ Cardinality(B) \in Nat /\ Cardinality(A \cap B) \in Nat
      /\ Cardinality(S) \in Nat
  BY <1>2, <1>3, <1>6, FS_CardinalityType
<1>8. Cardinality(S) <= Cardinality(A \cup B)
  BY <1>4, <1>5, FS_Subset
<1>9. Cardinality(A) < n
  OBVIOUS
<1> HIDE DEF A, B
<1> QED
  BY <1>1, <1>2, <1>5, <1>7, <1>8, <1>9

LEMMA StoredIsFinite ==
  /\ IsFiniteSet(Stored) /\ Cardinality(Stored) \in Nat
  /\ IsFiniteSet(Stored') /\ Cardinality(Stored') \in Nat
  /\ Stored \subseteq Stored' => Cardinality(Stored) <= Cardinality(Stored')
<1>1. IsFiniteSet(Jobs) /\ Stored \in SUBSET Jobs /\ Stored' \in SUBSET Jobs
  BY FS_Interval, JobStoreAssumption DEF Jobs, Stored
<1> QED
  BY <1>1, FS_Subset, FS_CardinalityType

\* What was counted is still there, unless the step is the one that makes it stale.
LEMMA StillStored ==
  ASSUME RetentionInv, Kept, ~stale', NEW d \in Clients, stage[d] = "select",
         NoteLoss \/ Stored' = Stored, excess'[d] = excess[d]
  PROVE  Cardinality(Stored') >= excess'[d] + MaxJobs
<1>1. Stored \subseteq Stored'
  BY DEF NoteLoss
<1>2. Cardinality(Stored) <= Cardinality(Stored')
  BY <1>1, StoredIsFinite
<1>3. Cardinality(Stored) >= excess[d] + MaxJobs /\ excess[d] \in Nat /\ MaxJobs \in Nat
  BY JobStoreAssumption DEF Kept, RetentionInv
<1> QED
  BY <1>2, <1>3, StoredIsFinite

LEMMA RetentionExecute ==
  ASSUME Inv, Inv', ControlInv, WholeInv, RetentionInv, NEW c \in Clients, Execute(c)
  PROVE  RetentionInv'
<1> DEFINE j == target[c]
<1>1. /\ j \in Jobs /\ ~Idle(c)
      /\ saved' = (IF EndsOperation(c) THEN saved \cup {j} ELSE saved)
  BY ControlOfExecute, Zenon
<1>2. /\ \A k \in Jobs \ {j} : visible'[k] = visible[k] /\ acked'[k] = acked[k]
      /\ durable' = (IF Stmt(c) = Commit THEN visible ELSE durable)
      /\ acked'[j] = (IF Stmt(c) = "delete job" THEN NoRows
                      ELSE IF EndsOperation(c) THEN visible'[j] ELSE acked[j])
      /\ created' = created /\ faults' = faults
      /\ stage' = stage /\ excess' = excess /\ ids' = ids
  BY <1>1, RowsOfExecute, Zenon DEF thread
<1>3. j \in 1..created /\ created \in 0..MaxCreated /\ saved \subseteq Jobs
  BY <1>1, JobStoreAssumption DEF Inv, Types, Jobs
<1>4. /\ deleted' = (IF Stmt(c) = "delete job" THEN deleted \cup {j} ELSE deleted)
      /\ NoteLoss
  BY Zenon DEF Execute
<1>5. Stmt(c) = "delete job" => j \in saved
  <2>1. CASE Saving(c)
    BY <2>1, SavingStatement, Zenon DEF Commit
  <2>2. CASE ~Saving(c)
    BY <1>1, <2>2, Zenon DEF Saving
  <2> QED
    BY <2>1, <2>2
<1>6. /\ excess' \in [Clients -> Nat] /\ ids' \in [Clients -> SUBSET Jobs]
      /\ deleted' \subseteq saved' /\ stale' \in BOOLEAN /\ faults' \in 0..MaxFaults
  BY <1>1, <1>2, <1>4, <1>5 DEF RetentionInv, NoteLoss
<1>7. \A k \in Jobs : visible'[k].row \/ durable'[k].row => k <= created'
  <2>1. \A k \in Jobs : visible[k].row \/ durable[k].row => k <= created
    BY DEF RetentionInv
  <2>2. \A k \in Jobs : durable'[k] \in {visible[k], durable[k]}
    BY <1>2, Zenon
  <2>3. j <= created
    BY <1>3
  <2> QED
    BY <1>2, <2>1, <2>2, <2>3, Zenon
<1>8. ASSUME ~stale'
      PROVE  Kept'
  <2>1. ~stale /\ Kept
    BY <1>4, <1>8 DEF NoteLoss, RetentionInv
  <2>2. \A d \in Clients : stage'[d] = "select" => Cardinality(Stored)' >= excess'[d] + MaxJobs
    BY <1>2, <1>4, <1>8, <2>1, StillStored
  <2>3. \A d \in Clients : stage'[d] = "delete" => \A k \in ids'[d] : created' - k >= MaxJobs
    BY <1>2, <2>1, Zenon DEF Kept
  <2>4. ASSUME NEW k \in saved' \ deleted', Young(k)'
        PROVE  acked'[k].row
    <3>1. k \in Jobs /\ Young(k) /\ k \notin deleted
      BY <1>1, <1>2, <1>3, <1>4, <2>4, Zenon DEF Young
    <3>2. CASE k # j
      <4>1. k \in saved
        BY <1>1, <2>4, <3>2
      <4> QED
        BY <1>2, <2>1, <3>1, <3>2, <4>1, Zenon DEF Kept
    <3>3. CASE k = j /\ ~EndsOperation(c)
      <4>1. Stmt(c) # "delete job" /\ k \in saved
        BY <1>1, <1>4, <2>4, <3>3
      <4> QED
        BY <1>2, <2>1, <3>1, <3>3, <4>1, Zenon DEF Kept
    <3>4. CASE k = j /\ EndsOperation(c)
      <4>1. Stmt(c) = Commit /\ Stmt(c) # "delete job"
        BY <1>1, <3>4, RestIsWork, Zenon DEF Inv, Commit
      <4>2. acked'[j] = visible[j]
        BY <1>1, <1>2, <3>4, <4>1, FieldsOfExecute, Zenon DEF Fields
      <4>3. visible[j].row
        <5>1. CASE Saving(c)
          <6>1. Open(c)
            BY <3>4, <5>1, SavedSoFarStep, Zenon DEF WholeInv
          <6> QED
            BY <5>1, <6>1, Zenon DEF WholeInv, SavedSoFar
        <5>2. CASE ~Saving(c)
          <6>1. j \in saved \ deleted
            BY <1>1, <3>1, <3>4, <5>2, Zenon DEF Saving
          <6>2. acked[j].row
            BY <2>1, <3>1, <3>4, <6>1, Zenon DEF Kept
          <6> QED
            BY <1>1, <6>2, Zenon DEF Inv, Safe, Keeps
        <5> QED
          BY <5>1, <5>2
      <4> QED
        BY <3>4, <4>2, <4>3, Zenon
    <3> QED
      BY <3>2, <3>3, <3>4
  <2> QED
    BY <2>2, <2>3, <2>4, Zenon DEF Kept
<1> QED
  BY <1>6, <1>7, <1>8, Zenon DEF RetentionInv

LEMMA RetentionCalls ==
  ASSUME Inv, Inv', RetentionInv, NEW c \in Clients,
         \/ CreateJob(c) \/ RunJob(c) \/ DeleteJob(c)
         \/ RecordWaypoint(c) \/ StoreOutcome(c)
  PROVE  RetentionInv'
<1>1. /\ UNCHANGED <<visible, durable, acked, saved, deleted, stale>>
      /\ \A d \in Clients \ {c} : stage'[d] = stage[d]
  BY Calls, Zenon
<1>2. UNCHANGED <<excess, ids, faults>>
  BY DEF CreateJob, RunJob, DeleteJob, RecordWaypoint, StoreOutcome, thread, history
<1>3. /\ created' = created \/ created' = created + 1
      /\ stage'[c] # "select" /\ stage'[c] # "delete"
  <2>1. stage \in [Clients -> Stages]
    BY DEF Inv, Types
  <2>2. CASE CreateJob(c) \/ DeleteJob(c)
    BY <2>1, <2>2 DEF CreateJob, DeleteJob, Start, thread
  <2>3. CASE RunJob(c) \/ RecordWaypoint(c) \/ StoreOutcome(c)
    BY <2>1, <2>3 DEF RunJob, RecordWaypoint, StoreOutcome
  <2> QED
    BY <2>2, <2>3
<1>4. created \in Nat /\ saved \subseteq Jobs /\ Jobs \subseteq Nat
  BY JobStoreAssumption DEF Inv, Types, Jobs
<1>5. \A k \in Jobs : visible'[k].row \/ durable'[k].row => k <= created'
  <2> SUFFICES ASSUME NEW k \in Jobs, visible'[k].row \/ durable'[k].row PROVE k <= created'
    OBVIOUS
  <2>1. k <= created
    BY <1>1, Zenon DEF RetentionInv
  <2>2. k \in Nat
    BY <1>4
  <2> QED
    BY <1>3, <1>4, <2>1, <2>2
<1>6. ASSUME ~stale', Kept
      PROVE  Kept'
  <2>1. Stored' = Stored
    BY <1>1, Zenon DEF Stored
  <2>2. \A d \in Clients : stage'[d] = "select" => Cardinality(Stored)' >= excess'[d] + MaxJobs
    BY <1>1, <1>2, <1>3, <1>6, <2>1, Zenon DEF Kept
  <2>3. ASSUME NEW d \in Clients, stage'[d] = "delete", NEW k \in ids'[d]
        PROVE  created' - k >= MaxJobs
    <3>1. k \in ids[d] /\ ids[d] \subseteq Jobs /\ stage[d] = "delete"
      BY <1>1, <1>2, <1>3, <2>3 DEF RetentionInv
    <3>2. created - k >= MaxJobs /\ k \in Nat
      BY <1>4, <1>6, <3>1 DEF Kept
    <3> QED
      BY <1>3, <1>4, <3>2, JobStoreAssumption
  <2>4. ASSUME NEW k \in saved' \ deleted', Young(k)'
        PROVE  acked'[k].row
    <3>1. k \in saved \ deleted /\ k \in Nat /\ created' - k < MaxJobs
      BY <1>1, <1>4, <2>4 DEF Young
    <3>2. created - k < MaxJobs
      BY <1>3, <1>4, <3>1, JobStoreAssumption
    <3> QED
      BY <1>1, <1>6, <3>1, <3>2, Zenon DEF Kept, Young
  <2> QED
    BY <2>2, <2>3, <2>4, Zenon DEF Kept
<1> QED
  BY <1>1, <1>2, <1>5, <1>6, Zenon DEF RetentionInv

LEMMA RetentionPrune ==
  ASSUME Inv, Inv', RetentionInv, NEW c \in Clients, Prune(c)
  PROVE  RetentionInv'
<1>1. /\ excess \in [Clients -> Nat] /\ ids \in [Clients -> SUBSET Jobs]
      /\ deleted \subseteq saved /\ stale \in BOOLEAN /\ faults \in 0..MaxFaults
      /\ \A j \in Jobs : visible[j].row \/ durable[j].row => j <= created
      /\ ~stale => Kept
      /\ stage \in [Clients -> Stages] /\ created \in Nat /\ saved \subseteq Jobs
  BY JobStoreAssumption DEF RetentionInv, Inv, Types, Jobs
<1>2. UNCHANGED <<created, saved, deleted>>
  BY DEF Prune, PruneCount, PruneSelect, PruneDelete, PruneCommit, PruneFails, history
<1>3. PICK to \in Stages : GoPrune(c, to) /\ stage'[c] = to
      /\ \A d \in Clients \ {c} : stage'[d] = stage[d]
  <2>1. PICK to \in Pruning \cup {"request"} : GoPrune(c, to)
    BY DEF Prune, PruneCount, PruneSelect, PruneDelete, PruneCommit, PruneFails, Pruning
  <2>2. stage' = [stage EXCEPT ![c] = to] /\ to \in Stages
    BY <2>1 DEF GoPrune, Stages
  <2> QED
    BY <1>1, <2>1, <2>2
<1>4. ASSUME NEW k \in Jobs, visible'[k].row \/ durable'[k].row
      PROVE  k <= created'
  <2>1. visible'[k] \in {visible[k], durable[k], NoRows} /\ durable'[k] \in {visible[k], durable[k]}
    <3>1. CASE PruneDelete(c)
      BY <3>1 DEF PruneDelete
    <3>2. CASE PruneCount(c) \/ PruneSelect(c) \/ PruneCommit(c) \/ PruneFails(c)
      BY <3>2 DEF PruneCount, PruneSelect, PruneCommit, PruneFails, db, history
    <3> QED
      BY <3>1, <3>2 DEF Prune
  <2>2. ~NoRows.row
    BY DEF NoRows
  <2> QED
    BY <1>1, <1>2, <1>4, <2>1, <2>2, Zenon
<1>5. /\ excess' \in [Clients -> Nat] /\ ids' \in [Clients -> SUBSET Jobs]
      /\ stale' \in BOOLEAN /\ faults' \in 0..MaxFaults
      /\ \A d \in Clients \ {c} : excess'[d] = excess[d] /\ ids'[d] = ids[d]
      /\ ~stale' => ~stale
      /\ NoteLoss \/ Stored' = Stored
  <2>1. CASE PruneCount(c)
    <3>1. excess' = excess \/ excess' = [excess EXCEPT ![c] = Cardinality(Stored) - MaxJobs]
      BY <2>1 DEF PruneCount
    <3>2. excess' # excess => Cardinality(Stored) - MaxJobs \in Nat
      BY <2>1, StoredIsFinite, JobStoreAssumption DEF PruneCount
    <3>3. UNCHANGED <<ids, stale, faults, visible>>
      BY <2>1 DEF PruneCount, db, history
    <3>4. Stored' = Stored
      BY <3>3, Zenon DEF Stored
    <3> QED
      BY <1>1, <3>1, <3>2, <3>3, <3>4
  <2>2. CASE PruneSelect(c)
    <3>1. /\ excess' = [excess EXCEPT ![c] = 0]
          /\ ids' = [ids EXCEPT ![c] = Oldest(excess[c])]
          /\ UNCHANGED <<stale, faults, visible>>
      BY <2>2 DEF PruneSelect, db, history
    <3>2. Oldest(excess[c]) \subseteq Jobs
      BY DEF Oldest, Stored
    <3>3. Stored' = Stored
      BY <3>1, Zenon DEF Stored
    <3> QED
      BY <1>1, <3>1, <3>2, <3>3
  <2>3. CASE PruneDelete(c)
    <3>1. ids' = [ids EXCEPT ![c] = {}] /\ UNCHANGED <<excess, faults>> /\ NoteLoss
      BY <2>3 DEF PruneDelete
    <3> QED
      BY <1>1, <3>1 DEF NoteLoss
  <2>4. CASE PruneCommit(c)
    <3>1. UNCHANGED <<excess, ids, stale, faults, visible>>
      BY <2>4 DEF PruneCommit, history
    <3>2. Stored' = Stored
      BY <3>1, Zenon DEF Stored
    <3> QED
      BY <1>1, <3>1, <3>2
  <2>5. CASE PruneFails(c)
    <3>1. /\ excess' = [excess EXCEPT ![c] = 0] /\ ids' = [ids EXCEPT ![c] = {}]
          /\ faults < MaxFaults /\ faults' = faults + 1 /\ NoteLoss
      BY <2>5 DEF PruneFails
    <3>2. faults' \in 0..MaxFaults
      BY <1>1, <3>1, JobStoreAssumption
    <3> QED
      BY <1>1, <3>1, <3>2 DEF NoteLoss
  <2> QED
    BY <2>1, <2>2, <2>3, <2>4, <2>5 DEF Prune
<1>6. ASSUME ~stale'
      PROVE  Kept'
  <2>1. ~stale /\ Kept
    BY <1>1, <1>5, <1>6
  <2>2. ASSUME NEW d \in Clients, stage'[d] = "select"
        PROVE  Cardinality(Stored') >= excess'[d] + MaxJobs
    <3>1. CASE d # c
      BY <1>3, <1>5, <1>6, <2>1, <2>2, <3>1, StillStored
    <3>2. CASE d = c
      <4>1. PruneCount(c) /\ excess' = [excess EXCEPT ![c] = Cardinality(Stored) - MaxJobs]
            /\ visible' = visible
        BY <1>1, <2>2, <3>2
           DEF Prune, PruneCount, PruneSelect, PruneDelete, PruneCommit, PruneFails, GoPrune, db
      <4>2. Stored' = Stored
        BY <4>1, Zenon DEF Stored
      <4>3. excess'[c] = Cardinality(Stored) - MaxJobs
        BY <1>1, <4>1
      <4> QED
        BY <3>2, <4>2, <4>3, StoredIsFinite, JobStoreAssumption
    <3> QED
      BY <3>1, <3>2
  <2>3. ASSUME NEW d \in Clients, stage'[d] = "delete", NEW j \in ids'[d]
        PROVE  created' - j >= MaxJobs
    <3>1. CASE d # c
      BY <1>2, <1>3, <1>5, <2>1, <2>3, <3>1, Zenon DEF Kept
    <3>2. CASE d = c
      <4>1. PruneSelect(c) /\ stage[c] = "select"
            /\ ids' = [ids EXCEPT ![c] = Oldest(excess[c])]
        BY <1>1, <2>3, <3>2
           DEF Prune, PruneCount, PruneSelect, PruneDelete, PruneCommit, PruneFails, GoPrune
      <4>2. j \in Oldest(excess[c])
        BY <1>1, <2>3, <3>2, <4>1
      <4>3. /\ Stored \in SUBSET (1..created) /\ j \in Stored
            /\ Cardinality({k \in Stored : k < j}) < excess[c]
        BY <1>1, <4>2 DEF Oldest, Stored, Jobs
      <4>4. Cardinality(Stored) >= excess[c] + MaxJobs
        BY <2>1, <4>1, Zenon DEF Kept
      <4>5. excess[c] \in Nat /\ MaxJobs \in Nat
        BY <1>1, JobStoreAssumption
      <4>6. created - j >= MaxJobs
        BY <1>1, <4>3, <4>4, <4>5, OldOnes
      <4> QED
        BY <1>2, <4>6, Zenon
    <3> QED
      BY <3>1, <3>2
  <2>4. ASSUME NEW j \in saved' \ deleted', Young(j)'
        PROVE  acked'[j].row
    <3>1. j \in Jobs /\ j \in saved \ deleted /\ Young(j)
      BY <1>1, <1>2, <2>4, Zenon DEF Young
    <3>2. acked[j].row
      BY <2>1, <3>1, Zenon DEF Kept
    <3>3. CASE PruneDelete(c)
      <4>1. stage[c] = "delete"
            /\ acked' = [k \in Jobs |-> IF k \in ids[c] THEN NoRows ELSE acked[k]]
        BY <3>3 DEF PruneDelete
      <4>2. j \in ids[c] => created - j >= MaxJobs
        BY <2>1, <4>1, Zenon DEF Kept
      <4>3. j \notin ids[c]
        BY <1>1, <3>1, <4>2, JobStoreAssumption DEF Young, Jobs
      <4> QED
        BY <3>1, <3>2, <4>1, <4>3
    <3>4. CASE PruneCount(c) \/ PruneSelect(c) \/ PruneCommit(c) \/ PruneFails(c)
      <4>1. acked' = acked
        BY <3>4 DEF PruneCount, PruneSelect, PruneCommit, PruneFails, history
      <4> QED
        BY <3>2, <4>1, Zenon
    <3> QED
      BY <3>3, <3>4 DEF Prune
  <2> QED
    BY <2>2, <2>3, <2>4, Zenon DEF Kept
<1> QED
  BY <1>1, <1>2, <1>4, <1>5, <1>6, Zenon DEF RetentionInv

LEMMA RetentionRaise ==
  ASSUME Inv, RetentionInv, NEW c \in Clients, RefuseOrphan(c) \/ FailStatement(c)
  PROVE  RetentionInv'
<1>1. /\ excess \in [Clients -> Nat] /\ ids \in [Clients -> SUBSET Jobs]
      /\ deleted \subseteq saved /\ stale \in BOOLEAN /\ faults \in 0..MaxFaults
      /\ \A j \in Jobs : visible[j].row \/ durable[j].row => j <= created
      /\ ~stale => Kept
      /\ stage \in [Clients -> Stages]
  BY DEF RetentionInv, Inv, Types
<1>2. /\ UNCHANGED <<durable, created, excess, ids, acked, saved, deleted>>
      /\ stage' = [stage EXCEPT ![c] = AfterException(c)]
      /\ visible' \in {visible, durable} /\ faults' \in 0..MaxFaults
      /\ NoteLoss \/ (stale' = stale /\ visible' = visible)
  BY <1>1, JobStoreAssumption DEF RefuseOrphan, FailStatement, Raise
<1>3. NoteLoss \/ Stored' = Stored
  BY <1>2, Zenon DEF Stored
<1>4. /\ stage'[c] # "select" /\ stage'[c] # "delete"
      /\ \A d \in Clients \ {c} : stage'[d] = stage[d]
  BY <1>1, <1>2 DEF AfterException
<1>5. ~stale' => ~stale
  BY <1>2 DEF NoteLoss
<1>6. stale' \in BOOLEAN
  BY <1>1, <1>2 DEF NoteLoss
<1>7. ASSUME ~stale'
      PROVE  Kept'
  <2>1. ~stale /\ Kept
    BY <1>1, <1>5, <1>7
  <2>2. ASSUME NEW d \in Clients, stage'[d] = "select"
        PROVE  Cardinality(Stored') >= excess'[d] + MaxJobs
    BY <1>2, <1>3, <1>4, <1>7, <2>1, <2>2, StillStored
  <2>3. \A d \in Clients : stage'[d] = "delete" => \A k \in ids'[d] : created' - k >= MaxJobs
    BY <1>2, <1>4, <2>1, Zenon DEF Kept
  <2>4. \A k \in saved' \ deleted' : Young(k)' => acked'[k].row
    BY <1>2, <2>1, Zenon DEF Kept, Young
  <2> QED
    BY <2>2, <2>3, <2>4, Zenon DEF Kept
<1> QED
  BY <1>1, <1>2, <1>6, <1>7, Zenon DEF RetentionInv

LEMMA RetentionStep ==
  Inv /\ ControlInv /\ WholeInv /\ RetentionInv /\ [Next]_vars => RetentionInv'
<1> SUFFICES ASSUME Inv, ControlInv, WholeInv, RetentionInv, [Next]_vars PROVE RetentionInv'
  OBVIOUS
<1>1. Inv'
  BY InvStep
<1>2. CASE Crash
  <2>1. /\ UNCHANGED <<durable, created, acked, saved, deleted, stale>> /\ visible' = durable
        /\ faults < MaxFaults /\ faults' = faults + 1
        /\ excess' = [d \in Clients |-> 0] /\ ids' = [d \in Clients |-> {}]
        /\ \A d \in Clients : stage'[d] = "request"
    BY <1>2 DEF Crash
  <2>2. /\ faults' \in 0..MaxFaults
        /\ excess' \in [Clients -> Nat] /\ ids' \in [Clients -> SUBSET Jobs]
    BY <2>1, JobStoreAssumption DEF RetentionInv
  <2>3. Kept => Kept'
    BY <2>1, Zenon DEF Kept, Young
  <2> QED
    BY <2>1, <2>2, <2>3, Zenon DEF RetentionInv
<1>3. CASE UNCHANGED vars
  BY <1>3, Zenon DEF vars, db, work, thread, history, RetentionInv, Kept, Young, Stored
<1> QED
  BY <1>1, <1>2, <1>3, RetentionCalls, RetentionExecute, RetentionRaise, RetentionPrune
     DEF Next, Client

LEMMA RetentionInit == Init => RetentionInv
<1> SUFFICES ASSUME Init PROVE RetentionInv
  OBVIOUS
<1>1. /\ faults = 0 /\ saved = {} /\ deleted = {} /\ stale = FALSE
      /\ \A j \in Jobs : visible[j] = NoRows /\ durable[j] = NoRows
      /\ \A c \in Clients : stage[c] = "request"
      /\ excess \in [Clients -> Nat] /\ ids \in [Clients -> SUBSET Jobs]
  BY DEF Init
<1>2. \A j \in Jobs : ~visible[j].row /\ ~durable[j].row
  BY <1>1 DEF NoRows
<1>3. faults \in 0..MaxFaults
  BY <1>1, JobStoreAssumption
<1>4. Kept
  BY <1>1, Zenon DEF Kept
<1>5. deleted \subseteq saved /\ stale \in BOOLEAN
  BY <1>1
<1> QED
  BY <1>1, <1>2, <1>3, <1>4, <1>5, Zenon DEF RetentionInv

\* Any number of prune_jobs that overlap, of failing statements, transactions left open and
\* crashes keep every saved job that fewer than MaxJobs jobs are younger than and that no
\* user deleted, as long as no row goes away between the count and the selection of one of
\* them: jobs created in between cost no other its place.
THEOREM RetentionKeepsTheYoungest == Spec => []RetentionKeepsNewest
<1>1. Inv /\ RetentionInv => RetentionKeepsNewest
  <2> SUFFICES ASSUME Inv, RetentionInv, ~stale, NEW j \in saved \ deleted, Young(j)
               PROVE  visible[j].row /\ durable[j].row
    BY DEF RetentionKeepsNewest, KeepsTheYoung
  <2>1. j \in Jobs
    BY JobStoreAssumption DEF Inv, Types, Jobs
  <2>2. acked[j].row
    BY Zenon DEF RetentionInv, Kept
  <2> QED
    BY <2>1, <2>2, Zenon DEF Inv, Safe, Keeps
<1>2. Spec => [](Inv /\ RetentionInv)
  BY InvInit, InvStep, ControlInit, ControlStep, WholeInit, WholeStep, RetentionInit,
     RetentionStep, PTL DEF Spec
<1> QED
  BY <1>1, <1>2, PTL

-----------------------------------------------------------------------------
(* Types.                                                                  *)

\* Types, with the ranges: no row counts more waypoints, measurements or progress than
\* the job has waypoints.
THEOREM StoreTypeCorrect == Spec => []TypeOK
<1>1. Inv /\ ControlInv /\ WholeInv /\ ProgressInv /\ RetentionInv => TypeOK
  <2> SUFFICES ASSUME Inv, ControlInv, WholeInv, ProgressInv, RetentionInv PROVE TypeOK
    OBVIOUS
  <2>1. visible \in [Jobs -> RowSet] /\ durable \in [Jobs -> RowSet] /\ acked \in [Jobs -> RowSet]
    BY DEF Inv, Types
  <2>2. ASSUME NEW j \in Jobs
        PROVE  visible[j] \in Rows /\ durable[j] \in Rows /\ acked[j] \in Rows
    <3>1. /\ visible[j] \in RowSet /\ durable[j] \in RowSet /\ last[j] \in 0..PathLen
          /\ visible[j].progress <= last[j] /\ durable[j].progress <= last[j]
      BY DEF Inv, Types, Safe
    <3>2. Backed(visible[j], j) /\ Backed(durable[j], j) /\ acked[j] \in Rows
      BY Zenon DEF ProgressInv
    <3>3. /\ visible[j].path <= PathLen /\ visible[j].measured <= last[j]
          /\ durable[j].path <= PathLen /\ durable[j].measured <= last[j]
      BY <3>2, Zenon DEF Backed
    <3>4. \A rows \in RowSet : rows.path <= PathLen /\ rows.measured <= last[j]
                               /\ rows.progress <= last[j] => rows \in Rows
      BY <3>1, InRange
    <3> QED
      BY <3>1, <3>2, <3>3, <3>4, Zenon
  <2>3. visible \in [Jobs -> Rows] /\ durable \in [Jobs -> Rows] /\ acked \in [Jobs -> Rows]
    BY <2>1, <2>2
  <2>4. \A c \in Clients : target[c] = None <=> Idle(c) /\ stage[c] = "request"
    <3>1. \A c \in Clients : stage[c] # "request" => target[c] # None
      BY ThreadJobs DEF Jobs, None
    <3> QED
      BY <3>1, Zenon DEF ControlInv, Forms, Form, Inv, Work
  <2>5. /\ lock \in Clients \cup {NoOne} /\ target \in [Clients -> 0..created]
        /\ created \in 0..MaxCreated /\ stage \in [Clients -> Stages]
        /\ last \in [Jobs -> 0..PathLen] /\ failed \subseteq Jobs /\ started \subseteq saved
    BY DEF ControlInv, Locks, Inv, Types
  <2>6. saved \subseteq Jobs /\ broken \subseteq Jobs
    BY JobStoreAssumption DEF Inv, Types, Jobs, WholeInv
  <2>7. /\ excess \in [Clients -> Nat] /\ ids \in [Clients -> SUBSET Jobs]
        /\ deleted \subseteq saved /\ stale \in BOOLEAN /\ faults \in 0..MaxFaults
    BY DEF RetentionInv
  <2> QED
    BY <2>3, <2>4, <2>5, <2>6, <2>7, Zenon DEF TypeOK
<1> QED
  BY <1>1, InvInit, InvStep, ControlInit, ControlStep, WholeInit, WholeStep, ProgressInit,
     ProgressStep, RetentionInit, RetentionStep, PTL DEF Spec
=============================================================================
