------------------------------- MODULE JobAPI -------------------------------
(***************************************************************************)
(* KafkaPostgresBackend (internal/api/backend.go) behind the REST routes   *)
(* of internal/api/rest.go.  Requests are served concurrently; each call   *)
(* to the database or to Kafka is one step, so that two requests, or a     *)
(* request and a worker, interleave between any two of them.  A request    *)
(* is named by the job id that its uuid.New() returns.                     *)
(***************************************************************************)
EXTENDS JobStore

CONSTANTS
  Submissions,  \* the bodies of POST /jobs: [work: Works, maxRetry: Int]
  Replays,      \* job ids that may be generated by a replay of an archived job
  Cancellable,  \* bound: jobs that receive a cancel request (one each)
  Pausable      \* bound: queues that an operator pauses and unpauses

ASSUME APIAssumption ==
  /\ Submissions \subseteq [work: Works, maxRetry: Int]
  /\ Replays \subseteq Jobs
  /\ Cancellable \subseteq Jobs
  /\ Pausable \subseteq Queues

VARIABLES
  req,    \* the request in progress that would create each job
  cancel  \* the cancel request for each job

apiVars == <<req, cancel>>

\* reply is the id returned to the caller, a set of at most one job.
Requests == [pc: {"idle", "lookup", "create", "dispatch", "done", "failed"},
             work: Works, maxRetry: Int, reply: SUBSET Jobs]

APITypeOK ==
  /\ req \in [Jobs -> Requests]
  /\ cancel \in [Jobs -> {"idle", "checked", "done", "failed"}]

APIInit ==
  /\ req = [j \in Jobs |-> [pc |-> "idle", work |-> Blank, maxRetry |-> 0,
                            reply |-> {}]]
  /\ cancel = [j \in Jobs |-> "idle"]

Goto(j, p) == req' = [req EXCEPT ![j].pc = p]

Reply(j, k) == req' = [req EXCEPT ![j].pc = "done", ![j].reply = {k}]

-----------------------------------------------------------------------------
(* Submit *)

\* POST /jobs arrives.  Without a key the lookup is skipped.
Submit(j, s) ==
  /\ req[j].pc = "idle"
  /\ req' = [req EXCEPT ![j] =
               [pc |-> IF s.work.key = NoKey THEN "create" ELSE "lookup",
                work |-> s.work, maxRetry |-> s.maxRetry, reply |-> {}]]
  /\ UNCHANGED <<storeVars, cancel>>

\* GetByIdempotencyKey: an existing job is the answer.
Lookup(j) ==
  /\ req[j].pc = "lookup"
  /\ \/ /\ SameKey(req[j].work) = {}
        /\ Goto(j, "create")
        /\ UNCHANGED faults
     \/ /\ \E k \in SameKey(req[j].work) : Reply(j, k)
        /\ UNCHANGED faults
     \/ Fault /\ Goto(j, "failed")
  /\ UNCHANGED <<jobs, outbox, paused, log, now, cancel>>

\* Mutant: the error of store.Create is ignored.
CreateRow_IgnoresError(j) ==
  LET w == req[j].work
      inserted == WithRow(j, IF w.runAt > 0 THEN "scheduled" ELSE "pending", w)
  IN
  /\ req[j].pc = "create"
  /\ Goto(j, "dispatch")
  /\ \/ KeyFree(w) /\ jobs' = inserted /\ UNCHANGED faults
     \/ ~KeyFree(w) /\ UNCHANGED <<jobs, faults>>
     \/ Fault /\ UNCHANGED jobs
  /\ UNCHANGED <<outbox, paused, log, now, cancel>>

\* store.Create, for Submit and for RetryArchivedJob.  An error may be reported
\* for an INSERT that took effect.
CreateRow(j) ==
  LET w == req[j].work
      inserted == WithRow(j, IF w.runAt > 0 THEN "scheduled" ELSE "pending", w)
  IN
  /\ req[j].pc = "create"
  /\ \/ KeyFree(w) /\ jobs' = inserted /\ Goto(j, "dispatch") /\ UNCHANGED faults
     \/ ~KeyFree(w) /\ UNCHANGED jobs /\ Goto(j, "failed") /\ UNCHANGED faults
     \/ /\ Fault
        /\ UNCHANGED jobs \/ (KeyFree(w) /\ jobs' = inserted)
        /\ Goto(j, "failed")
  /\ UNCHANGED <<outbox, paused, log, now, cancel>>

\* Mutant: delayed jobs are enqueued at once.
Dispatch_NoDelay(j) ==
  LET m == Message(j, req[j].work, 0, req[j].maxRetry) IN
  /\ req[j].pc = "dispatch"
  /\ \/ EnqueueOk(m) /\ Reply(j, j)
     \/ EnqueueError(m) /\ Goto(j, "failed")
  /\ UNCHANGED <<jobs, outbox, paused, now, cancel>>

\* After Create: a job that is not due is left to the promoter, any other is
\* enqueued here.
Dispatch(j) ==
  LET r == req[j]
      m == Message(j, r.work, 0, r.maxRetry)
  IN
  /\ r.pc = "dispatch"
  /\ \/ /\ r.work.runAt > now
        /\ Reply(j, j)
        /\ UNCHANGED <<log, faults>>
     \/ /\ r.work.runAt <= now
        /\ \/ EnqueueOk(m) /\ Reply(j, j)
           \/ EnqueueError(m) /\ Goto(j, "failed")
  /\ UNCHANGED <<jobs, outbox, paused, now, cancel>>

\* RetryArchivedJob up to its Create: GetByID finds an archived row, whose type
\* and payload a fresh job takes over, in the queue the caller names, with
\* maxRetry 0.
RetryArchivedJob(j, src, q) ==
  /\ j \in Replays
  /\ req[j].pc = "idle"
  /\ jobs[src].status = "archived"
  /\ req' = [req EXCEPT ![j] =
               [pc |-> "create", maxRetry |-> 0, reply |-> {},
                work |-> [Blank EXCEPT !.type = jobs[src].work.type,
                                       !.valid = jobs[src].work.valid,
                                       !.queue = q]]]
  /\ UNCHANGED <<storeVars, cancel>>

-----------------------------------------------------------------------------
(* CancelJob *)

\* GetByID and the test on the status it returned.
CancelCheck(j) ==
  /\ j \in Cancellable
  /\ cancel[j] = "idle"
  /\ jobs[j].status \notin {"absent", "completed", "processing"}
  /\ cancel' = [cancel EXCEPT ![j] = "checked"]
  /\ UNCHANGED <<storeVars, req>>

\* The UPDATE, which no longer looks at the status.
CancelWrite(j) ==
  /\ cancel[j] = "checked"
  /\ \/ /\ jobs' = WithStatus(j, "cancelled", 0)
        /\ cancel' = [cancel EXCEPT ![j] = "done"]
        /\ UNCHANGED faults
     \/ /\ Fault
        /\ cancel' = [cancel EXCEPT ![j] = "failed"]
        /\ UNCHANGED jobs \/ jobs' = WithStatus(j, "cancelled", 0)
  /\ UNCHANGED <<outbox, paused, log, now, req>>

-----------------------------------------------------------------------------
(* PauseQueue, UnpauseQueue *)

SetQueuePaused(q, p) ==
  /\ q \in Pausable
  /\ paused' = IF p THEN paused \cup {q} ELSE paused \ {q}
  /\ UNCHANGED <<jobs, outbox, log, now, faults, apiVars>>

PauseQueue(q) == q \notin paused /\ SetQueuePaused(q, TRUE)

UnpauseQueue(q) == q \in paused /\ SetQueuePaused(q, FALSE)

-----------------------------------------------------------------------------

RequestStep(j) == Lookup(j) \/ CreateRow(j) \/ Dispatch(j)

APINext ==
  \/ \E j \in Jobs :
       \/ \E s \in Submissions : Submit(j, s)
       \/ Lookup(j)
       \/ CreateRow(j)
       \/ Dispatch(j)
       \/ \E src \in Jobs, q \in Queues : RetryArchivedJob(j, src, q)
       \/ CancelCheck(j)
       \/ CancelWrite(j)
  \/ \E q \in Queues : PauseQueue(q) \/ UnpauseQueue(q)
=============================================================================
