------------------------------ MODULE JobStore ------------------------------
(***************************************************************************)
(* What the processes of the job system share: the PostgreSQL tables       *)
(* (internal/store/postgres.go, deploy/postgres/schema.sql), the Kafka     *)
(* topic job.requests that internal/kafkaqueue/producer.go writes, and the *)
(* clock.  Each operator is one statement (or one transaction) of the      *)
(* store, or one WriteMessages call of the producer; the components        *)
(* JobAPI, JobWorker and Promoter are built from them.                     *)
(***************************************************************************)
EXTENDS Integers, Sequences

CONSTANTS
  Jobs,          \* job ids (UUIDs); each is generated by exactly one request
  Queues,        \* queue names
  DefaultQueue,  \* the queue "default"
  Keys,          \* idempotency keys
  NoKey,         \* the empty idempotency key
  MaxLog,        \* bound: messages ever written to the topic
  MaxFaults,     \* bound: database calls, produces and commits that fail
  MaxTime        \* bound: the last second of the clock

ASSUME StoreAssumption ==
  /\ DefaultQueue \in Queues
  /\ NoKey \notin Keys
  /\ MaxLog \in Nat
  /\ MaxFaults \in Nat
  /\ MaxTime \in Nat

\* "email" goes through the outbox, "task" is any other registered handler,
\* "unknown" has no handler in the registry.
JobTypes == {"email", "task", "unknown"}

\* "absent" stands for "no row with this id".
Statuses == {"absent", "pending", "scheduled", "processing", "completed",
             "failed", "archived", "cancelled"}

\* The columns a row keeps from its submission.  valid abstracts the payload:
\* whether ValidateEmailPayload accepts it.
Works == [type: JobTypes, valid: BOOLEAN, queue: Queues, runAt: Nat,
          key: Keys \cup {NoKey}]

Blank == [type |-> "unknown", valid |-> FALSE, queue |-> DefaultQueue,
          runAt |-> 0, key |-> NoKey]

Rows == [status: Statuses, attempt: Nat, work: Works]

Messages == [job: Jobs, type: JobTypes, valid: BOOLEAN, queue: Queues,
             attempt: Nat, maxRetry: Nat]

OutboxRows == [job: Jobs, status: {"pending", "sent", "failed"}]

VARIABLES
  jobs,    \* the table jobs
  outbox,  \* the table job_outbox, in insertion order
  paused,  \* the queues whose row in the table queues says paused
  log,     \* the single partition of job.requests
  now,     \* time.Now().Unix()
  faults   \* faults injected so far (an auxiliary counter)

storeVars == <<jobs, outbox, paused, log, now, faults>>

StoreTypeOK ==
  /\ jobs \in [Jobs -> Rows]
  /\ outbox \in Seq(OutboxRows)
  /\ paused \in SUBSET Queues
  /\ log \in Seq(Messages)
  /\ now \in Nat
  /\ faults \in Nat

StoreInit ==
  /\ jobs = [j \in Jobs |-> [status |-> "absent", attempt |-> 0, work |-> Blank]]
  /\ outbox = << >>
  /\ paused = {}
  /\ log = << >>
  /\ now = 1
  /\ faults = 0

Exists(j) == jobs[j].status # "absent"

\* A call to the database or to Kafka returns an error.
Fault == faults < MaxFaults /\ faults' = faults + 1

-----------------------------------------------------------------------------
(* Statements *)

\* GetByIdempotencyKey: the rows with this type, queue and key.
SameKey(w) ==
  {j \in Jobs : /\ Exists(j)
                /\ jobs[j].work.type = w.type
                /\ jobs[j].work.queue = w.queue
                /\ jobs[j].work.key = w.key}

\* Mutant: a schema without the unique index.
KeyFree_NoIndex(w) == TRUE

\* The unique index on (type, queue, idempotency_key), which skips NULL keys.
KeyFree(w) == w.key = NoKey \/ SameKey(w) = {}

\* Create: the table after inserting j.
WithRow(j, s, w) ==
  [jobs EXCEPT ![j] = [status |-> s, attempt |-> 0, work |-> w]]

\* UpdateStatus: the table after the UPDATE, which touches nothing when no row
\* has the id and otherwise overwrites whatever status the row had.
WithStatus(j, s, a) ==
  [jobs EXCEPT ![j] = [status  |-> IF Exists(j) THEN s ELSE @.status,
                       attempt |-> IF Exists(j) THEN a ELSE @.attempt,
                       work    |-> @.work]]

\* An UpdateStatus whose error the caller ignores.
TryStatus(j, s, a) ==
  \/ jobs' = WithStatus(j, s, a) /\ UNCHANGED faults
  \/ Fault /\ UNCHANGED jobs

\* CompleteJobWithOutbox: both writes in one transaction.
CompleteJobWithOutbox(j, a) ==
  /\ jobs' = WithStatus(j, "completed", a)
  /\ outbox' = Append(outbox, [job |-> j, status |-> "pending"])

\* ListScheduledDue: the rows the promoter's SELECT returns.
ScheduledDue ==
  {j \in Jobs : /\ jobs[j].status = "scheduled"
                /\ jobs[j].work.runAt > 0
                /\ jobs[j].work.runAt <= now}

-----------------------------------------------------------------------------
(* The topic *)

\* Options are left out of the message when there is nothing to say, and the
\* worker reads a missing Options as MaxRetry 0; a negative MaxRetry allows no
\* retry either.
Retries(n) == IF n > 0 THEN n ELSE 0

Message(j, w, attempt, maxRetry) ==
  [job |-> j, type |-> w.type, valid |-> w.valid, queue |-> w.queue,
   attempt |-> attempt, maxRetry |-> Retries(maxRetry)]

Append1(m) == Len(log) < MaxLog /\ log' = Append(log, m)

\* Producer.Enqueue returning nil.
EnqueueOk(m) == Append1(m) /\ UNCHANGED faults

\* Producer.Enqueue returning an error: the broker may have the message anyway
\* (the acknowledgement was lost) or not.
EnqueueError(m) == Fault /\ (UNCHANGED log \/ Append1(m))

\* The clock advances by a second.
Tick ==
  /\ now < MaxTime
  /\ now' = now + 1
  /\ UNCHANGED <<jobs, outbox, paused, log, faults>>
=============================================================================
