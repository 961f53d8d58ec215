------------------------------ MODULE JobWorker ------------------------------
(***************************************************************************)
(* The worker processes: RunConsumer (internal/kafkaqueue/consumer.go) and *)
(* the process closure of cmd/worker/main.go.                              *)
(*                                                                         *)
(* A worker joins the consumer group and starts a new generation, which    *)
(* reads the partition from the committed offset.  Every message fetched   *)
(* gets a goroutine of its own, so that all messages of a generation are   *)
(* processed concurrently and commit in any order; goroutines of an older  *)
(* generation keep running until their process exits.  task[<<g, o>>] is   *)
(* the goroutine that generation g started for the message at offset o.    *)
(* The priority queue between fetching and starting is the subject of      *)
(* module Consumer: here a goroutine may start at any time after its       *)
(* message is fetched, which covers every order the queue can choose.      *)
(***************************************************************************)
EXTENDS JobStore

CONSTANTS
  Workers,        \* worker processes
  Mortal,         \* the workers that may crash or be shut down
  MaxGenerations  \* bound: consumer group generations

ASSUME WorkerAssumption ==
  /\ Mortal \subseteq Workers
  /\ MaxGenerations \in Nat

Gens == 1 .. MaxGenerations
Offsets == 1 .. MaxLog
Tasks == Gens \X Offsets

VARIABLES
  task,       \* the goroutine of each generation and offset
  gen,        \* the current generation, 0 before the first
  member,     \* the worker of each generation so far
  live,       \* whether the member of the current generation is running
  fetched,    \* the last offset that generation fetched
  committed   \* the offset committed for the group

workerVars == <<task, gen, member, live, fetched, committed>>

\* "none" before the fetch, "gone" after the commit, "killed" by a crash; the
\* others name the next call of the goroutine.
TaskStates == {"none", "admit", "load", "start", "handle", "retry", "archive",
               "commit", "gone", "killed"}

WorkerTypeOK ==
  /\ task \in [Tasks -> TaskStates]
  /\ gen \in 0 .. MaxGenerations
  /\ member \in Seq(Workers) /\ Len(member) = gen
  /\ live \in BOOLEAN
  /\ fetched \in 0 .. Len(log)
  /\ committed \in 0 .. Len(log)

WorkerInit ==
  /\ task = [t \in Tasks |-> "none"]
  /\ gen = 0
  /\ member = << >>
  /\ live = FALSE
  /\ fetched = 0
  /\ committed = 0

Msg(t) == log[t[2]]

Running(t) == task[t] \notin {"none", "gone", "killed"}

Go(t, p) == task' = [task EXCEPT ![t] = p]

groupVars == <<gen, member, live, fetched, committed>>

-----------------------------------------------------------------------------
(* The consumer group *)

\* Mutant: a new generation starts at the end of the topic (LastOffset).
Join_Latest(w) ==
  /\ gen < MaxGenerations
  /\ gen' = gen + 1
  /\ member' = Append(member, w)
  /\ live' = TRUE
  /\ fetched' = Len(log)
  /\ UNCHANGED <<task, committed, storeVars>>

\* Mutant: the committed offset is taken for the next one to read.
Join_OffByOne(w) ==
  /\ gen < MaxGenerations
  /\ gen' = gen + 1
  /\ member' = Append(member, w)
  /\ live' = TRUE
  /\ fetched' = committed + 1
  /\ UNCHANGED <<task, committed, storeVars>>

\* A rebalance gives the partition to w, which resumes at the committed offset.
Join(w) ==
  /\ gen < MaxGenerations
  /\ gen' = gen + 1
  /\ member' = Append(member, w)
  /\ live' = TRUE
  /\ fetched' = committed
  /\ UNCHANGED <<task, committed, storeVars>>

IsMember(w) == live /\ member[gen] = w

\* The process of w ends: a crash, SIGTERM, or a drain, none of which waits for
\* the goroutines.  The member of the last generation stays up.
Crash(w) ==
  /\ w \in Mortal
  /\ IsMember(w) \/ \E t \in Tasks : Running(t) /\ member[t[1]] = w
  /\ IsMember(w) => gen < MaxGenerations
  /\ live' = (live /\ ~IsMember(w))
  /\ task' = [t \in Tasks |->
                IF Running(t) /\ member[t[1]] = w THEN "killed" ELSE task[t]]
  /\ UNCHANGED <<gen, member, fetched, committed, storeVars>>

\* Mutant: ReadMessage, which commits what it reads.
Fetch_AutoCommit ==
  /\ live
  /\ fetched < Len(log)
  /\ fetched' = fetched + 1
  /\ committed' = fetched + 1
  /\ task' = [task EXCEPT ![<<gen, fetched + 1>>] = "admit"]
  /\ UNCHANGED <<gen, member, live, storeVars>>

\* FetchMessage, Push, Pop and the go statement.
Fetch ==
  /\ live
  /\ fetched < Len(log)
  /\ fetched' = fetched + 1
  /\ task' = [task EXCEPT ![<<gen, fetched + 1>>] = "admit"]
  /\ UNCHANGED <<gen, member, live, committed, storeVars>>

\* Mutant: the high water mark of the message is committed.
Commit_HighWaterMark(t) ==
  /\ task[t] = "commit"
  /\ Go(t, "gone")
  /\ \/ committed' = Len(log) /\ UNCHANGED faults
     \/ Fault /\ UNCHANGED committed
  /\ UNCHANGED <<gen, member, live, fetched, jobs, outbox, paused, log, now>>

\* CommitMessages.  The offset is the message's own, whether or not earlier ones
\* are done, and may go backwards.
Commit(t) ==
  /\ task[t] = "commit"
  /\ Go(t, "gone")
  /\ \/ committed' = t[2] /\ UNCHANGED faults
     \/ Fault /\ UNCHANGED committed
  /\ UNCHANGED <<gen, member, live, fetched, jobs, outbox, paused, log, now>>

-----------------------------------------------------------------------------
(* process *)

\* GetQueue.  The message of a paused queue is dropped, and so is the message
\* when the query fails: the consumer commits it either way.
Admit(t) ==
  /\ task[t] = "admit"
  /\ \/ Msg(t).queue \notin paused /\ Go(t, "load") /\ UNCHANGED faults
     \/ Msg(t).queue \in paused /\ Go(t, "commit") /\ UNCHANGED faults
     \/ Fault /\ Go(t, "commit")
  /\ UNCHANGED <<groupVars, jobs, outbox, paused, log, now>>

\* Mutant: the status read is not looked at.
Load_NoCancelCheck(t) ==
  /\ task[t] = "load"
  /\ \/ Go(t, "start") /\ UNCHANGED faults
     \/ Fault /\ Go(t, "commit")
  /\ UNCHANGED <<groupVars, jobs, outbox, paused, log, now>>

\* GetByID.  A missing row is no obstacle.
Load(t) ==
  /\ task[t] = "load"
  /\ \/ jobs[Msg(t).job].status # "cancelled" /\ Go(t, "start") /\ UNCHANGED faults
     \/ jobs[Msg(t).job].status = "cancelled" /\ Go(t, "commit") /\ UNCHANGED faults
     \/ Fault /\ Go(t, "commit")
  /\ UNCHANGED <<groupVars, jobs, outbox, paused, log, now>>

\* UpdateStatus(processing).
Start(t) ==
  /\ task[t] = "start"
  /\ Go(t, "handle")
  /\ TryStatus(Msg(t).job, "processing", Msg(t).attempt)
  /\ UNCHANGED <<groupVars, outbox, paused, log, now>>

\* Mutant: two statements instead of a transaction.
CompleteEmail_NoTx(t) ==
  /\ task[t] = "handle"
  /\ Msg(t).type = "email" /\ Msg(t).valid
  /\ Go(t, "commit")
  /\ \/ CompleteJobWithOutbox(Msg(t).job, Msg(t).attempt) /\ UNCHANGED faults
     \/ /\ Fault
        /\ jobs' = WithStatus(Msg(t).job, "completed", Msg(t).attempt)
        /\ UNCHANGED outbox
  /\ UNCHANGED <<groupVars, paused, log, now>>

\* An e-mail with a valid payload: the job and its outbox row in one
\* transaction.  An error may be reported for a transaction that took effect.
CompleteEmail(t) ==
  /\ task[t] = "handle"
  /\ Msg(t).type = "email" /\ Msg(t).valid
  /\ Go(t, "commit")
  /\ \/ CompleteJobWithOutbox(Msg(t).job, Msg(t).attempt) /\ UNCHANGED faults
     \/ /\ Fault
        /\ \/ UNCHANGED <<jobs, outbox>>
           \/ CompleteJobWithOutbox(Msg(t).job, Msg(t).attempt)
  /\ UNCHANGED <<groupVars, paused, log, now>>

\* No handler in the registry.
RejectUnknown(t) ==
  /\ task[t] = "handle"
  /\ Msg(t).type = "unknown"
  /\ Go(t, "commit")
  /\ TryStatus(Msg(t).job, "failed", Msg(t).attempt)
  /\ UNCHANGED <<groupVars, outbox, paused, log, now>>

\* Handle returns nil.
Complete(t) ==
  /\ task[t] = "handle"
  /\ Msg(t).type = "task"
  /\ Go(t, "commit")
  /\ TryStatus(Msg(t).job, "completed", Msg(t).attempt)
  /\ UNCHANGED <<groupVars, outbox, paused, log, now>>

\* Mutants: the test compares the wrong attempt, or is off by one.
Fail_OldAttempt(t) ==
  LET attempt == Msg(t).attempt + 1 IN
  /\ task[t] = "handle"
  /\ Msg(t).type = "task" \/ (Msg(t).type = "email" /\ ~Msg(t).valid)
  /\ Go(t, IF Msg(t).attempt <= Msg(t).maxRetry THEN "retry" ELSE "archive")
  /\ TryStatus(Msg(t).job, "failed", attempt)
  /\ UNCHANGED <<groupVars, outbox, paused, log, now>>

Fail_Strict(t) ==
  LET attempt == Msg(t).attempt + 1 IN
  /\ task[t] = "handle"
  /\ Msg(t).type = "task" \/ (Msg(t).type = "email" /\ ~Msg(t).valid)
  /\ Go(t, IF attempt < Msg(t).maxRetry THEN "retry" ELSE "archive")
  /\ TryStatus(Msg(t).job, "failed", attempt)
  /\ UNCHANGED <<groupVars, outbox, paused, log, now>>

\* Handle, or the validation of an e-mail, returns an error.
Fail(t) ==
  LET attempt == Msg(t).attempt + 1 IN
  /\ task[t] = "handle"
  /\ Msg(t).type = "task" \/ (Msg(t).type = "email" /\ ~Msg(t).valid)
  /\ Go(t, IF attempt <= Msg(t).maxRetry THEN "retry" ELSE "archive")
  /\ TryStatus(Msg(t).job, "failed", attempt)
  /\ UNCHANGED <<groupVars, outbox, paused, log, now>>

\* Mutant: the retry falls through to the archiving.
Retry_FallsThrough(t) ==
  LET m == [Msg(t) EXCEPT !.attempt = @ + 1] IN
  /\ task[t] = "retry"
  /\ Go(t, "archive")
  /\ EnqueueOk(m) \/ EnqueueError(m)
  /\ UNCHANGED <<groupVars, jobs, outbox, paused, now>>

\* Enqueue the next attempt; an error is ignored.
Retry(t) ==
  LET m == [Msg(t) EXCEPT !.attempt = @ + 1] IN
  /\ task[t] = "retry"
  /\ Go(t, "commit")
  /\ EnqueueOk(m) \/ EnqueueError(m)
  /\ UNCHANGED <<groupVars, jobs, outbox, paused, now>>

\* Out of retries: UpdateStatus(archived).
Archive(t) ==
  /\ task[t] = "archive"
  /\ Go(t, "commit")
  /\ TryStatus(Msg(t).job, "archived", Msg(t).attempt + 1)
  /\ UNCHANGED <<groupVars, outbox, paused, log, now>>

-----------------------------------------------------------------------------

TaskStep(t) ==
  \/ Admit(t) \/ Load(t) \/ Start(t)
  \/ CompleteEmail(t) \/ RejectUnknown(t) \/ Complete(t) \/ Fail(t)
  \/ Retry(t) \/ Archive(t) \/ Commit(t)

WorkerNext ==
  \/ \E w \in Workers : Join(w) \/ Crash(w)
  \/ Fetch
  \/ \E t \in Tasks : TaskStep(t)
=============================================================================
