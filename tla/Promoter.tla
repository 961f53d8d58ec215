------------------------------- MODULE Promoter -------------------------------
(***************************************************************************)
(* The promoter of the scheduler process (internal/scheduler/promoter.go): *)
(* one goroutine that on each tick lists the scheduled jobs that are due   *)
(* and, job by job, enqueues a message and then updates the row.           *)
(***************************************************************************)
EXTENDS JobStore

CONSTANT MaxRestarts  \* bound: restarts of the scheduler process

ASSUME PromoterAssumption == MaxRestarts \in Nat

\* The MaxRetry that promoteDue passes to Enqueue, whatever the job asked for.
PromoteMaxRetry == 2

VARIABLES
  due,      \* what is left of the list: [job, attempt] as they were read
  current,  \* the element that is enqueued and not yet updated, if any
  restarts  \* restarts so far

promoVars == <<due, current, restarts>>

DueItems == [job: Jobs, attempt: Nat]

PromoterTypeOK ==
  /\ due \subseteq DueItems
  /\ current \subseteq due
  /\ restarts \in 0 .. MaxRestarts

PromoterInit == due = {} /\ current = {} /\ restarts = 0

\* ListScheduledDue.  (An error ends the tick, as an empty list does.)
List ==
  /\ due = {}
  /\ ScheduledDue # {}
  /\ due' = {[job |-> j, attempt |-> jobs[j].attempt] : j \in ScheduledDue}
  /\ UNCHANGED <<current, restarts, storeVars>>

\* The next element in the order of the list, run_at ascending.
IsNext(i) ==
  /\ i \in due
  /\ current = {}
  /\ \A k \in due : jobs[i.job].work.runAt <= jobs[k.job].work.runAt

\* Mutant: no "continue" after a failed Enqueue.
PromoteEnqueue_NoContinue(i) ==
  LET m == Message(i.job, jobs[i.job].work, 0, PromoteMaxRetry) IN
  /\ IsNext(i)
  /\ EnqueueOk(m) \/ EnqueueError(m)
  /\ current' = {i}
  /\ UNCHANGED <<due, restarts, jobs, outbox, paused, now>>

\* Enqueue.  After an error the loop continues with the next element.
PromoteEnqueue(i) ==
  LET m == Message(i.job, jobs[i.job].work, 0, PromoteMaxRetry) IN
  /\ IsNext(i)
  /\ \/ EnqueueOk(m) /\ current' = {i} /\ UNCHANGED due
     \/ EnqueueError(m) /\ due' = due \ {i} /\ UNCHANGED current
  /\ UNCHANGED <<restarts, jobs, outbox, paused, now>>

\* UpdateStatus(pending), with the attempt that was listed.
PromoteUpdate(i) ==
  /\ i \in current
  /\ current' = {}
  /\ due' = due \ {i}
  /\ TryStatus(i.job, "pending", i.attempt)
  /\ UNCHANGED <<restarts, outbox, paused, log, now>>

\* The scheduler process ends and starts again with nothing in memory.
PromoterRestart ==
  /\ due # {}
  /\ restarts < MaxRestarts
  /\ restarts' = restarts + 1
  /\ due' = {} /\ current' = {}
  /\ UNCHANGED storeVars

PromoterStep ==
  List \/ \E i \in due : PromoteEnqueue(i) \/ PromoteUpdate(i)

PromoterNext == PromoterStep \/ PromoterRestart
=============================================================================
