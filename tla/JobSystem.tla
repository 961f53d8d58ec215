------------------------------ MODULE JobSystem ------------------------------
(***************************************************************************)
(* The job system: API servers, workers and the promoter over the database *)
(* and the topic they share, with the properties of their composition.     *)
(***************************************************************************)
EXTENDS JobAPI, JobWorker, Promoter, FiniteSets

vars == <<storeVars, apiVars, workerVars, promoVars>>

TypeOK == StoreTypeOK /\ APITypeOK /\ WorkerTypeOK /\ PromoterTypeOK

Init == StoreInit /\ APIInit /\ WorkerInit /\ PromoterInit

Next ==
  \/ Tick /\ UNCHANGED <<apiVars, workerVars, promoVars>>
  \/ APINext /\ UNCHANGED <<workerVars, promoVars>>
  \/ WorkerNext /\ UNCHANGED <<apiVars, promoVars>>
  \/ PromoterNext /\ UNCHANGED <<apiVars, workerVars>>

Spec == Init /\ [][Next]_vars

(* A request runs to its end, a goroutine runs until its process exits, the
   consumer loop goes on fetching, the group coordinator hands the partition
   to a running worker, the promoter's ticker fires, and time passes.  That
   requests arrive, crashes, rebalances of a live member and restarts are left
   to chance.                                                              *)
Fairness ==
  /\ WF_vars(Tick /\ UNCHANGED <<apiVars, workerVars, promoVars>>)
  /\ \A j \in Jobs :
       WF_vars(RequestStep(j) /\ UNCHANGED <<workerVars, promoVars>>)
  /\ WF_vars(~live /\ \E w \in Workers : Join(w) /\ UNCHANGED <<apiVars, promoVars>>)
  /\ WF_vars(Fetch /\ UNCHANGED <<apiVars, promoVars>>)
  /\ \A t \in Tasks : WF_vars(TaskStep(t) /\ UNCHANGED <<apiVars, promoVars>>)
  /\ WF_vars(PromoterStep /\ UNCHANGED <<apiVars, workerVars>>)

FairSpec == Spec /\ Fairness

-----------------------------------------------------------------------------
(* Messages and rows *)

MessagesOf(j) == {o \in 1 .. Len(log) : log[o].job = j}

\* Every message on the topic is about a job that has a row, with the type, the
\* payload and the queue of that row: Submit, RetryArchivedJob and promoteDue
\* write the row before the message "so the worker always finds the job", and a
\* retry copies its message.
MessagesMatchRows ==
  \A o \in 1 .. Len(log) :
    LET m == log[o] IN
    /\ Exists(m.job)
    /\ m.type = jobs[m.job].work.type
    /\ m.valid = jobs[m.job].work.valid
    /\ m.queue = jobs[m.job].work.queue

\* Attempts are handed on one at a time and within the budget: the message of
\* attempt k > 0 stands behind one of attempt k - 1 of the same job and with the
\* same budget, and k is at most that budget, whatever is redelivered or lost.
RetryChain ==
  \A o \in 1 .. Len(log) :
    log[o].attempt > 0 =>
      /\ log[o].attempt <= log[o].maxRetry
      /\ \E p \in 1 .. o - 1 : log[p] = [log[o] EXCEPT !.attempt = @ - 1]

\* A job is archived only after a delivery of its last permitted attempt.
ArchivedOnlyExhausted ==
  \A j \in Jobs :
    jobs[j].status = "archived" =>
      \E o \in MessagesOf(j) : /\ log[o].attempt = log[o].maxRetry
                               /\ jobs[j].attempt = log[o].attempt + 1

\* No message of a delayed job exists before its run_at: Submit leaves the job to
\* the promoter, which lists what is due.
NotBeforeDue ==
  \A j \in Jobs : MessagesOf(j) # {} => jobs[j].work.runAt <= now

\* A completed e-mail job has an outbox row, and there is never an outbox row for
\* anything but a valid e-mail: CompleteJobWithOutbox is one transaction.
OutboxMatchesJobs ==
  /\ \A j \in Jobs :
       jobs[j].status = "completed" /\ jobs[j].work.type = "email" =>
         \E i \in 1 .. Len(outbox) : outbox[i].job = j
  /\ \A i \in 1 .. Len(outbox) :
       jobs[outbox[i].job].work.type = "email" /\ jobs[outbox[i].job].work.valid

-----------------------------------------------------------------------------
(* Promises to the caller *)

\* Submit returned the job's own id, so the job is remembered somewhere: it has
\* a message on the topic, or it still waits for the promoter, or it was
\* cancelled.  The promoter updates the row only after its message is written.
AcceptedIsRemembered ==
  \A j \in Jobs :
    req[j].reply = {j} =>
      MessagesOf(j) # {} \/ jobs[j].status \in {"scheduled", "cancelled"}

\* Two accepted submissions with the same type, queue and key were given the same
\* job, and it has a row with that key (the lookup, backed by the unique index).
IdempotentReplies ==
  \A i, j \in Jobs :
    req[i].pc = "done" /\ req[j].pc = "done" =>
      LET v == req[i].work
          w == req[j].work IN
      v.key # NoKey /\ v.type = w.type /\ v.queue = w.queue /\ v.key = w.key =>
        /\ req[i].reply = req[j].reply
        /\ \A k \in req[i].reply : Exists(k) /\ jobs[k].work.key = v.key

\* Where nobody is about to touch the row of j: no goroutine of j is past its
\* test for "cancelled", and the promoter does not hold j.
Undisturbed(j) ==
  /\ \A t \in Tasks :
       task[t] \in {"start", "handle", "retry", "archive"} => Msg(t).job # j
  /\ \A i \in due : i.job # j

\* A job that is cancelled at a moment when nobody is about to touch it stays
\* cancelled and never runs again, whatever messages it still has on the topic.
CancelledStaysCancelled ==
  [][\A j \in Jobs :
       jobs[j].status = "cancelled" /\ Undisturbed(j) =>
         jobs'[j].status = "cancelled" /\ Undisturbed(j)']_vars

-----------------------------------------------------------------------------
(* Delivery *)

\* process has returned for the message at offset o.
Processed(o) == \E g \in Gens : task[<<g, o>>] \in {"commit", "gone"}

\* process is on its way for the message at offset o.
InProgress(o) ==
  \E g \in Gens :
    task[<<g, o>>] \in {"admit", "load", "start", "handle", "retry", "archive"}

\* A message below the committed offset has been processed or is being
\* processed: "Commits offset after process returns".
CommittedIsHandled ==
  \A o \in 1 .. committed : Processed(o) \/ InProgress(o)

\* The weaker fact that holds although offsets are committed out of order: a
\* message below the committed offset is skipped only when the process that
\* worked on it was killed.  A rebalance alone loses nothing.
OnlyCrashesLose ==
  \A o \in 1 .. committed :
    Processed(o) \/ InProgress(o) \/ \E g \in Gens : task[<<g, o>>] = "killed"

\* Someone will still do something about j: a request, the promoter, a goroutine,
\* or a message that the running generation, or else the next one, has yet to
\* fetch.
Attended(j) ==
  \/ req[j].pc = "dispatch"
  \/ jobs[j].status = "scheduled"
  \/ \E i \in due : i.job = j
  \/ \E o \in MessagesOf(j) : InProgress(o) \/ o > (IF live THEN fetched ELSE committed)

Final(j) ==
  \/ jobs[j].status \in {"absent", "completed", "archived", "cancelled"}
  \/ jobs[j].status = "failed" /\ jobs[j].work.type = "unknown"

\* A job that is neither finished nor in anybody's care got there by a call that
\* failed in that very step, or because its message was delivered while its queue
\* was paused: process returned without an update, or its Enqueue was lost, and
\* the message is committed all the same.  Nothing else forgets a job.
ForgottenHasCause ==
  [][\A j \in Jobs :
       (Final(j) \/ Attended(j)) /\ ~(Final(j) \/ Attended(j))' =>
         faults' > faults \/ jobs[j].work.queue \in paused]_vars

\* While each message is delivered once, a job is in the hands of one goroutine
\* at a time: the next attempt is enqueued by the last step of the one before.
AttemptsDoNotOverlap ==
  \A t, u \in Tasks :
    /\ task[t] \in {"start", "handle", "retry", "archive"}
    /\ task[u] \in {"start", "handle", "retry", "archive"}
    /\ Msg(t).job = Msg(u).job
    => t = u

\* GetStatus, which GET /jobs/{id} answers with.
GetStatus(j) ==
  [status  |-> IF Exists(j) THEN jobs[j].status ELSE "unknown",
   attempt |-> jobs[j].attempt]

\* While each message is delivered once, and for jobs that are neither delayed nor
\* cancelled, what GetStatus answers is a life cycle: attempts go up to what the
\* submission allowed, a job is archived after the last one and not before, and a
\* completed or archived job is not touched again.
L == INSTANCE JobLifecycle WITH
       shown <- [j \in Jobs |-> GetStatus(j)],
       allowed <- [j \in Jobs |-> Retries(req[j].maxRetry)]

ImplementsLifecycle == L!LifecycleSpec

-----------------------------------------------------------------------------
(* Liveness *)

\* A due scheduled job is eventually enqueued, unless it is cancelled first,
\* although the scheduler restarts and calls fail.
DueIsPromoted ==
  \A j \in Jobs :
    jobs[j].status = "scheduled" ~> MessagesOf(j) # {} \/ jobs[j].status = "cancelled"

Finished(j) == [](Final(j) /\ Exists(j))

\* While no call fails, a job that was submitted for later reaches a final status
\* and keeps it: "Status stays scheduled; Scheduler promotes when due; Worker runs
\* -> completed".
ScheduledIsFinished ==
  [](faults = 0) =>
    \A j \in Jobs : req[j].reply = {j} /\ jobs[j].work.runAt > 0 ~> Finished(j)
=============================================================================
