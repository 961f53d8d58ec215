------------------------------ MODULE Recurring ------------------------------
(***************************************************************************)
(* Recurring schedules: the table schedules, which the API writes          *)
(* (CreateSchedule, DeleteSchedule), and the loop of the scheduler process *)
(* (internal/scheduler/recurring.go) that lists the due schedules and,     *)
(* one by one, creates a job, enqueues it and moves next_run_at.  Each of  *)
(* these calls is a step.  Job ids are numbered in the order of creation,  *)
(* and Jobs is a set of numbers.                                           *)
(***************************************************************************)
EXTENDS JobStore, FiniteSets

CONSTANTS
  Schedules,    \* schedule ids, each created once (BIGSERIAL)
  Period,       \* the cron expression of each: it matches the multiples of this
  Mutable,      \* bound: schedules that may be deleted
  MaxRestarts   \* bound: restarts of the scheduler process

ASSUME RecurringAssumption ==
  /\ Jobs \subseteq Nat
  /\ IsFiniteSet(Schedules)
  /\ Period \in [Schedules -> Nat \ {0}]
  /\ Mutable \subseteq Schedules
  /\ MaxRestarts \in Nat

VARIABLES
  row,      \* "none" before it is created, "active", or "deleted"
  nextRun,  \* the column next_run_at
  first,    \* its value when the schedule was created (an auxiliary variable)
  due,      \* what is left of the list, as it was read
  step,     \* the next call for the first of them
  job,      \* the job created for it, if any
  origin,   \* the schedule and the slot each job was created for (auxiliary)
  restarts  \* restarts so far

scheduleVars == <<row, nextRun, first>>

loopVars == <<due, step, job, origin, restarts>>

recurringVars == <<storeVars, scheduleVars, loopVars>>

Slots == [sch: Schedules, next: Nat]

RecurringTypeOK ==
  /\ StoreTypeOK
  /\ row \in [Schedules -> {"none", "active", "deleted"}]
  /\ nextRun \in [Schedules -> Nat]
  /\ first \in [Schedules -> Nat]
  /\ due \in Seq(Slots)
  /\ step \in {"create", "enqueue", "update"}
  /\ job \subseteq Jobs /\ (job = {} <=> step = "create")
  /\ origin \in [Jobs -> SUBSET Slots]
  /\ restarts \in 0 .. MaxRestarts

RecurringInit ==
  /\ StoreInit
  /\ row = [s \in Schedules |-> "none"]
  /\ nextRun = [s \in Schedules |-> 0]
  /\ first = [s \in Schedules |-> 0]
  /\ due = << >> /\ step = "create" /\ job = {}
  /\ origin = [j \in Jobs |-> {}]
  /\ restarts = 0

\* sched.Next(t): the first match after t.
NextMatch(s, t) == (t \div Period[s] + 1) * Period[s]

-----------------------------------------------------------------------------
(* The API *)

CreateSchedule(s) ==
  /\ row[s] = "none"
  /\ row' = [row EXCEPT ![s] = "active"]
  /\ nextRun' = [nextRun EXCEPT ![s] = NextMatch(s, now)]
  /\ first' = [first EXCEPT ![s] = NextMatch(s, now)]
  /\ UNCHANGED <<storeVars, loopVars>>

DeleteSchedule(s) ==
  /\ s \in Mutable
  /\ row[s] = "active"
  /\ row' = [row EXCEPT ![s] = "deleted"]
  /\ UNCHANGED <<nextRun, first, storeVars, loopVars>>

-----------------------------------------------------------------------------
(* runRecurringTick *)

\* ORDER BY next_run_at, in any order among equals.
Ordered(S) ==
  {q \in [1 .. Cardinality(S) -> S] :
     \A a, b \in DOMAIN q : a < b => q[a] # q[b] /\ q[a].next <= q[b].next}

\* Mutant: a schedule is deleted by marking its row, and the SELECT does not look.
ListDue_SeesDeleted ==
  LET found == {s \in Schedules : row[s] # "none" /\ nextRun[s] <= now} IN
  /\ due = << >>
  /\ found # {}
  /\ due' \in Ordered({[sch |-> s, next |-> nextRun[s]] : s \in found})
  /\ UNCHANGED <<step, job, origin, restarts, storeVars, scheduleVars>>

\* ListSchedulesDue.  (An error ends the tick, as an empty list does.)
ListDue ==
  LET found == {s \in Schedules : row[s] = "active" /\ nextRun[s] <= now} IN
  /\ due = << >>
  /\ found # {}
  /\ due' \in Ordered({[sch |-> s, next |-> nextRun[s]] : s \in found})
  /\ UNCHANGED <<step, job, origin, restarts, storeVars, scheduleVars>>

\* Mutant: the job of the element before is kept.
Continue_KeepsJob == due' = Tail(due) /\ step' = "create" /\ UNCHANGED job

\* On to the next schedule of the list, after an error or at the end.
Continue == due' = Tail(due) /\ step' = "create" /\ job' = {}

Fresh(j) == origin[j] = {} /\ \A k \in Jobs : origin[k] = {} => j <= k

\* Create, which may have inserted the row although it reports an error.
CreateJob(j) ==
  LET inserted == WithRow(j, "pending", [Blank EXCEPT !.type = "task"]) IN
  /\ due # << >>
  /\ step = "create" /\ job = {}
  /\ Fresh(j)
  /\ origin' = [origin EXCEPT ![j] = {Head(due)}]
  /\ \/ /\ jobs' = inserted
        /\ step' = "enqueue" /\ job' = {j}
        /\ UNCHANGED <<due, faults>>
     \/ /\ Fault
        /\ jobs' = inserted \/ UNCHANGED jobs
        /\ Continue
  /\ UNCHANGED <<restarts, outbox, paused, log, now, scheduleVars>>

\* Mutant: next_run_at stays where it is.
EnqueueJob_NoUpdate(j) ==
  LET m == Message(j, jobs[j].work, 0, 0) IN
  /\ due # << >>
  /\ step = "enqueue" /\ j \in job
  /\ EnqueueOk(m) \/ EnqueueError(m)
  /\ Continue
  /\ UNCHANGED <<origin, restarts, jobs, outbox, paused, now, scheduleVars>>

\* The type, the payload, the queue and max_retry are those of the schedule; they
\* make no difference here.
EnqueueJob(j) ==
  LET m == Message(j, jobs[j].work, 0, 0) IN
  /\ due # << >>
  /\ step = "enqueue" /\ j \in job
  /\ \/ EnqueueOk(m) /\ step' = "update" /\ UNCHANGED <<due, job>>
     \/ EnqueueError(m) /\ Continue
  /\ UNCHANGED <<origin, restarts, jobs, outbox, paused, now, scheduleVars>>

\* Mutant: the next run is computed from the clock.
UpdateNextRun_FromClock ==
  LET i == Head(due)
      moved == [nextRun EXCEPT ![i.sch] =
                 IF row[i.sch] = "active" THEN NextMatch(i.sch, now) ELSE @]
  IN
  /\ due # << >>
  /\ step = "update"
  /\ Continue
  /\ \/ nextRun' = moved /\ UNCHANGED faults
     \/ Fault /\ (nextRun' = moved \/ UNCHANGED nextRun)
  /\ UNCHANGED <<origin, restarts, row, first, jobs, outbox, paused, log, now>>

\* UpdateScheduleNextRun, with the match after the run that was listed; an UPDATE
\* of a deleted row touches nothing.
UpdateNextRun ==
  LET i == Head(due)
      moved == [nextRun EXCEPT ![i.sch] =
                 IF row[i.sch] = "active" THEN NextMatch(i.sch, i.next) ELSE @]
  IN
  /\ due # << >>
  /\ step = "update"
  /\ Continue
  /\ \/ nextRun' = moved /\ UNCHANGED faults
     \/ Fault /\ (nextRun' = moved \/ UNCHANGED nextRun)
  /\ UNCHANGED <<origin, restarts, row, first, jobs, outbox, paused, log, now>>

\* The scheduler process ends and starts again with nothing in memory.
RestartLoop ==
  /\ due # << >>
  /\ restarts < MaxRestarts
  /\ restarts' = restarts + 1
  /\ due' = << >> /\ step' = "create" /\ job' = {}
  /\ UNCHANGED <<origin, storeVars, scheduleVars>>

LoopStep ==
  \/ ListDue \/ UpdateNextRun
  \/ \E j \in Jobs : CreateJob(j) \/ EnqueueJob(j)

RecurringNext ==
  \/ Tick /\ UNCHANGED <<scheduleVars, loopVars>>
  \/ \E s \in Schedules : CreateSchedule(s) \/ DeleteSchedule(s)
  \/ LoopStep
  \/ RestartLoop

RecurringSpec == RecurringInit /\ [][RecurringNext]_recurringVars

\* The loop's ticker fires and its tick runs on.
FairRecurringSpec == RecurringSpec /\ WF_recurringVars(LoopStep)

-----------------------------------------------------------------------------
(* Properties *)

\* The jobs that were put on the topic for a slot.
JobsOf(i) ==
  {j \in Jobs : origin[j] = {i} /\ \E o \in 1 .. Len(log) : log[o].job = j}

\* The runs a schedule should have had before t, one for each match of its cron
\* expression since it was created.
SlotsBefore(s, t) == {n \in first[s] .. t - 1 : n % Period[s] = 0}

\* However late the loop is, and whatever fails, next_run_at moves past a run only
\* when a job for that run is on the topic: no run is skipped.
NoRunSkipped ==
  \A s \in Schedules :
    row[s] # "none" =>
      \A n \in SlotsBefore(s, nextRun[s]) : JobsOf([sch |-> s, next |-> n]) # {}

\* A run is repeated only by a failing call or a restart, and once for each.
RepeatsAreBounded ==
  \A s \in Schedules : \A n \in 0 .. MaxTime :
    Cardinality(JobsOf([sch |-> s, next |-> n])) <= 1 + faults + restarts

\* The elements of the list that are about s.
Listed(s) == {i \in 1 .. Len(due) : due[i].sch = s}

\* A deleted schedule fires at most for the one run that the loop had already
\* listed: once nothing of it is in the list, no job is created for it any more,
\* whatever fails and however often the scheduler restarts.
DeletedFiresNoMore ==
  [][\A s \in Schedules :
       row[s] = "deleted" =>
         /\ Cardinality(Listed(s)) <= 1
         /\ Listed(s) = {} =>
              /\ Listed(s)' = {}
              /\ \A j \in Jobs : \A i \in origin'[j] \ origin[j] : i.sch # s]_recurringVars

\* A schedule that is due moves on or is deleted, although calls fail and the
\* scheduler restarts.
DueScheduleMoves ==
  \A s \in Schedules : \A n \in 0 .. MaxTime :
    (row[s] = "active" /\ nextRun[s] = n /\ n <= now)
      ~> (row[s] = "deleted" \/ nextRun[s] > n)
=============================================================================
