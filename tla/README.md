# TLA+ model of the Jobs Processing System

A job is submitted over REST, recorded in PostgreSQL, sent through a Kafka
topic, executed by a worker, retried or archived when it fails, and promoted by
a scheduler when it was submitted for later. The modules here model that path
with every call to the database or to Kafka as a step of its own, so that the
processes interleave, fail and crash between any two calls. TLC checks the
model on small instances, TLAPS proves most of its safety properties for all
values of the constants. The outbox processor, the inside of the consumer, the
rate limiter and the recurring schedules have models of their own; on top of the
whole stand the handlers with what they write to files, and the front ends with
the people who use them.

    tlc -workers 2 -config Faults.cfg MCJobSystem     # any of the .cfg files
    tlapm JobSystemPromiseProofs.tla                  # any of the *Proofs modules

## 1. Inventory

### Components

| component | source | state it keeps | operations that change state |
|---|---|---|---|
| REST API and backend | `internal/api/rest.go`, `backend.go` | none between requests; within one: what it read and has still to write | Submit, RetryArchivedJob (replay), CancelJob, PauseQueue, UnpauseQueue, schedules |
| Job store | `internal/store/postgres.go`, `deploy/postgres/schema.sql` | tables `jobs`, `job_outbox`, `queues`, `schedules` | Create, UpdateStatus, CompleteJobWithOutbox, SetQueuePaused, UpdateOutboxStatus, schedules; the partial unique index on (type, queue, idempotency_key) |
| Job producer | `internal/kafkaqueue/producer.go` | none | Enqueue: one message on `job.requests` |
| Job consumer | `internal/kafkaqueue/consumer.go` | the reader's position, an in-memory priority queue, one goroutine per message, the offset committed for the group | fetch, push, pop, process, commit, drain |
| Worker `process` | `cmd/worker/main.go` | none between messages | pause test, cancel test, the statuses processing, completed, failed, archived, the outbox row, the retry |
| Outbox processor | `cmd/worker/main.go`, `internal/jobs/email.go` | the batch it listed | send, mark sent or failed |
| Concurrency limiter | `cmd/worker/main.go` | a semaphore per job type | Acquire, Release |
| Promoter | `internal/scheduler/promoter.go` | the list of due jobs of this tick | list, enqueue, set pending |
| Recurring schedules | `internal/scheduler/recurring.go` | the list of due schedules of this tick | create job, enqueue, move next_run_at |
| Rate limiter | `internal/api/ratelimit.go` | a token bucket per queue and one for everything, in the API process | Allow |
| HTTP server | `internal/api/rest.go`, `cmd/api/main.go` | the requests it is serving | POST /jobs from the body to the answer; ends without waiting for them |
| Front ends | `cmd/dashboard`, `cmd/user-service`, `cmd/billing-service`, `cmd/enqueue` | none | each endpoint posts one job and shows the answer |
| Fake job generator | `internal/scheduler/fake.go`, `fake_dispatch.go` | none | one job of each type per round |
| Job handlers | `internal/jobs/*.go` | the output files of reports, invoices and images | Handle: succeeds or fails; truncates and writes a file |
| Lifecycle events, ingest, metrics, tracing, gRPC schema | `internal/events`, `internal/ingest`, `internal/metrics`, `internal/telemetry`, `api/proto` | nothing the other parts read | - |

### How they interact

The API, the workers and the scheduler never call each other. They share the
database and the topic. The front ends call the API, which asks the rate limiter
first; the generator and the recurring schedules write rows and messages
themselves, as Submit does:

    POST /jobs --> Submit --INSERT--> jobs <--UPDATE-- process (worker)
                     |                 ^  ^                ^     |
                     | due             |  | UPDATE         |     | retry
                     v                 |  |                |     v
                 job.requests <---- promoter          job.requests
                                                           |
                  process --one transaction--> jobs + job_outbox --> outbox processor

No row is locked and no UPDATE tests the status it replaces: whatever a process
read before may have changed when it writes. The tests the code makes (a
cancelled job is not started, a completed job is not cancelled, only scheduled
jobs are promoted) are all of the form "read, then later write".

### What is hard in it

- The priority queue, the goroutine per message and the commit after `process`
  together mean that offsets are committed in the order in which jobs *finish*.
- A message is delivered again after a crash or a rebalance, and `process` has
  no memory of having run it: it tests only for `cancelled`.
- Errors are reported for calls that took effect (a lost acknowledgement); most
  errors in `process` are ignored on purpose, and an error that `process`
  returns still has the offset committed.
- The promoter enqueues first and updates the row second, from a list that ages
  while it works through it.
- Submit writes the row, then compares `run_at` with a clock that has moved on.
- The API process ends without finishing its requests, answers get lost, and a
  user who sees an error may try again: the job may exist all the same.
- The default `SMTP_ADDR` is empty: then an e-mail is logged, and its row marked sent.
- A handler truncates its file and then writes it, while a second delivery of the
  same job, or another job with the same `out_path`, does so too.

`PROJECT.json` lists these as hazards, each with the line at which it bites and
the properties that would show it.

### What correctness means

| component | what must hold | properties |
|---|---|---|
| API | an accepted job is remembered; the same idempotency key gives the same job | AcceptedIsRemembered, IdempotentReplies |
| front ends | what the user is told is true; a retry duplicates a job only after a failure, and never with a key; every call ends | AnswersAreTrue, DuplicatesAreBounded, EveryCallEnds |
| rate limiter | no bucket gives more than its burst and what it gained; Retry-After is long enough | LimitRespected, RetryAfterIsEnough |
| store and topic | a message is about a row, and says what the row says; e-mail jobs and outbox rows agree | MessagesMatchRows, OutboxMatchesJobs |
| consumer | a committed offset does not skip a message, or only when a process was killed | CommittedIsHandled, OnlyCrashesLose |
| priority queue, drain | every fetched message is begun once; no wakeup is lost; a drain leaves nothing queued and completes | ImplementsDispatcher, NoLostWakeup, ProducedIsProcessed, DrainCompletes, DrainCompletesWhenBusy |
| limiter | a slot is held exactly by the goroutines inside | SlotsAreHeld |
| outbox processor | with a mail server everywhere, what is marked sent was sent; how often a row can be sent; no row stays pending | SentWasMailed, MailsAreBounded, SentOnce, OutboxIsDrained |
| recurring schedules | no run is skipped; repeats have a cause; a due schedule moves on; a deleted one is quiet | NoRunSkipped, RepeatsAreBounded, DueScheduleMoves, DeletedFiresNoMore |
| process | retries stay a chain within their budget; archived means exhausted; one goroutine per job; what callers see is a life cycle whose outcomes are final | RetryChain, ArchivedOnlyExhausted, AttemptsDoNotOverlap, ImplementsLifecycle |
| handlers | a completed job has its whole output; a job is completed or archived only if payload and retries allow | CompletedFileIsWhole, NoUndeservedOutcome |
| promoter | nothing runs early; what is due is promoted | NotBeforeDue, DueIsPromoted |
| cancel | a cancellation that nobody raced stays | CancelledStaysCancelled |
| the whole | a job is left without care only by a failed call or a pause; a job ends as its payload and its retries deserve | ForgottenHasCause, OutcomeIsDeserved, ScheduledIsFinished |

## 2. Modules

`JobSystem` EXTENDS `JobAPI`, `JobWorker` and `Promoter`, which all EXTEND
`JobStore`; its `Next` is one step of one of them, or a tick of the clock.
`Handlers` and `FrontEnds` compose it with what is below and above it.
`OutboxProcessor`, `RateLimiter` and `Recurring` EXTEND `JobStore` as well, with
only as much of the rest as they need. `Consumer` stands alone and implements
`Dispatcher`, which says what `JobWorker` takes for granted of it.

    JobStore <-- JobAPI, JobWorker, Promoter <-- JobSystem <-- MCJobSystem, JobSystem*Proofs
    JobSystem, Submissions <-- Handlers  <-- MCHandlers, HandlersProofs
    JobSystem, RateLimiter <-- Rest
    Rest, Submissions      <-- FrontEnds <-- MCFrontEnds, FrontEndsProofs
    JobStore, Payloads     <-- Submissions
    JobStore <-- RateLimiter
    JobStore <-- OutboxProcessor <-- MCOutbox, OutboxProofs
    JobStore <-- Recurring       <-- MCRecurring, RecurringProofs
    JobLifecycle <..implements.. JobSystem, while messages are delivered once
    Dispatcher <..implements.. Consumer <-- MCConsumer, ConsumerProofs

### JobStore: what is shared

| variable | code |
|---|---|
| `jobs[j]` | the row of job `j`: status, attempt, and the columns it keeps from its submission (`work`) |
| `outbox` | `job_outbox` in insertion order |
| `paused` | the queues with `paused = true` |
| `log` | the one partition of `job.requests` |
| `now` | `time.Now().Unix()` |
| `faults` | auxiliary: failing calls so far |

Its operators are the statements of `postgres.go` (`WithRow` for Create,
`WithStatus` for UpdateStatus, `CompleteJobWithOutbox`, `ScheduledDue` for
ListScheduledDue, `SameKey` for GetByIdempotencyKey, `KeyFree` for the unique
index) and `Producer.Enqueue` (`EnqueueOk`, `EnqueueError`). `Fault` is a call
that returns an error; where the code cannot tell, the call may have taken
effect nevertheless.

In JobSystem a payload is one bit, `valid`: whether ValidateEmailPayload accepts
it. Types are reduced to three: e-mail (which goes through the outbox), any
other registered type, and an unregistered one. A handler of a registered type
succeeds or fails freely; `Handlers` decides it from the payload.

### JobAPI: requests

`req[j]` is the request whose `uuid.New()` returns `j`: its program counter and
its arguments. `Submit` receives it, `Lookup`, `CreateRow` and `Dispatch` are
its three calls, each of which may fail. A replay enters at `create` with the
archived job's type and payload. `CancelCheck` and `CancelWrite` are the two
calls of CancelJob.

### JobWorker: the consumer group and `process`

A new **generation** starts with every `Join` (a rebalance or a restart) and
reads from the committed offset. `task[<<g, o>>]` is the goroutine that
generation `g` started for the message at offset `o`; its values name the next
call it makes:

    none -Fetch-> admit -> load -> start -> handle -> commit -> gone
                    |        |                |  \-> retry ---^
                    |        |                \----> archive -^
                    \--------\--> commit

Goroutines of an older generation keep running, as the worker that lost the
partition does not stop them; `Crash(w)` kills all goroutines of `w` (a crash,
SIGTERM, or the exit after a drain: none waits for them). `Commit` sets the
committed offset to the goroutine's own, forwards or backwards, which is what
kafka-go does with explicit commits and CommitInterval 0. The priority queue is
abstracted: a fetched message's goroutine may start at any later time, which
includes every order the queue may choose, and which `Consumer` justifies. The wait
for a slot of the limiter lies between `Admit` and `Load`; that the slot comes is
ProducedIsProcessed of Consumer.

### Promoter

`due` is what is left of the list of this tick, with the attempts as they were
listed; `current` the element that is enqueued and not yet updated. A restart
forgets both. `PromoteMaxRetry` is the constant 2 that promoteDue passes,
whatever the submission asked for: the row does not keep it.

### Consumer, Dispatcher: inside one worker process

`Dispatcher` is the promise: a message is accepted, then begun once, in any order,
and the dispatcher closes only when none is waiting, or is cancelled and promises
nothing any more. `Consumer` is RunConsumer with its three kinds of goroutines:

| variables | code |
|---|---|
| `fetcher`, `hand` | the fetching goroutine: `Check` (drainCheck, ctx), `FetchMessage`, `FetchError`, `Push`, `SetDrain` |
| `items`, `drain`, `popper` | the priority queue and the loop around `Pop`, which waits on the condition variable |
| `run[m]`, `slots` | the goroutine of message `m` and the limiter's channels: `Skip` (process returns before the limiter) or `Admit`, `Acquire`, `Return`, `CommitMessage` |
| `topic`, `position` | what is written, and what FetchMessage has returned |
| `drainRequested`, `cancelled`, `up` | POST /admin/drain, the context, the process |

Push, SetDrain and one turn of Pop's loop hold the mutex, hence one step each;
`Woken` is cond.Signal. The refinement maps `waiting` to the message in hand and
the heap, `begun` to the messages with a goroutine, and `state` to the loop's end.
A malformed message is committed by the fetching goroutine and never accepted.
A goroutine that was admitted waits in `Acquire` and has no other way to go, not even
when the context is cancelled: if a slot leaked, it would wait there for ever.

### OutboxProcessor

Rows are named by their place in `outbox`. `batch[s]` is what sender `s` has listed
and not finished. `smtp` is the set of senders with a mail server, any set, chosen
once and for all. `Send` calls the server, which may accept the e-mail and report an
error; without a server, which is the default of `SMTP_ADDR`, it logs the e-mail and
returns no error (`email.go:55`); `Mark` writes the status, and the error of that write is ignored
as in the code. `Restart` forgets the batch. `Insert` is the transaction with which
`process` completes an e-mail job; it may come again for the same job, as after
a redelivery. `mails` records what the server accepted.

### Recurring

`CreateSchedule` and `DeleteSchedule` are the API's; `ListDue`, `CreateJob`,
`EnqueueJob` and `UpdateNextRun` the calls of runRecurringTick, each of which may
fail, and `Continue` what follows a failure or the end of an element. A cron expression
is a period, and `NextMatch` the first multiple after a time. `origin` records the
schedule and the run each job was created for, `first` the first run of a schedule.
An UPDATE of a deleted row touches nothing.

### Payloads, Submissions: what is submitted

`Payloads` has a payload as what decides the outcome of its handler: whether the
handler accepts it, how many attempts of an invoice `_demo_fail_until_attempt` has fail,
whether it reads an image from outside, and its `out_path`. Every endpoint of a
front end, the five scenarios of the dashboard and the generator are operators
that name what they submit (`Register`, `Scenario(id)`, `Fake(kind)`, ...);
`MustFail` is what the handlers make of it, `Repaired` what a replay does to it.
`cmd/enqueue` sends its payload as a JSON string, so all but `hello` reject it.
`Submissions` turns that into the body of POST /jobs.

### Handlers

JobSystem with payloads: `HandleOk` and `HandleError` are constrained by the
payload (what is read from outside, an image, is read before any file is created, so
it cannot fail later), and a handler with an `out_path` goes through `OpenFile` and `WriteFile`
first, the truncation and the contents of os.WriteFile. `stage` is what each
goroutine has done to its file; a file is absent, cut short, whole (then it holds
the job's id) or mixed, when two jobs wrote different lengths at once.
`ReplayArchived` is the replay button, `SubmitFake` the generator. `Die` is
JobSystem's `Crash`, and notes in `orphaned` whether the process died over a
message that had been delivered again.

Handlers leaves the promoter out and submits for now only: a delayed job that is
promoted several times and redelivered multiplies the states (to more than seven
million for one job), and its messages are like submitted ones. Schedule,
FrontEnds and PromotedLate run the promoter.

### RateLimiter, Rest, FrontEnds

| variables | code |
|---|---|
| `level`, `last` | each `rate.Limiter`'s tokens, in parts of 1/`Minute`, and when they were counted |
| `taken` | auxiliary: when each bucket gave a token |
| `http[j]` | the exchange that would create job `j`: `Arrive`, `RejectBody`, `AskGlobal`, `AskQueue`, `Respond`, and the answer |
| `call[j]` | what the user knows of it: `Ask`, `Deliver`, `LoseContact` |

The two questions of `Allow` are two steps, as each bucket has its own lock, and a
refusal by the queue does not give the global token back. `RestartAPI` leaves
every open request where it is and starts with full buckets. A wish (something a
user wants) may be tried again whenever the user was told of an error; each try
is an exchange. `user-service` and `billing-service` report success for an
answer 201 that they cannot read (`Lenient`), the others an error (`Strict`).

### JobLifecycle

What GetStatus shows of a job submitted for now to somebody who keeps asking:
unknown, then pending, then attempts that are counted up to what the submission
allowed, then completed, or archived after the last attempt and not before, for
good. JobSystem implements it when messages are delivered once and nothing is
cancelled; the mapping is GetStatus, and the retries that the request asked for.
Steps may be missed (from processing of one attempt to that of the next, or from
failed to completed), since process ignores that it could not write a status. A
job may stay at processing or failed: that its end is reached is
OutcomeIsDeserved's matter.

### JobSystem, MC modules, proofs

`JobSystem` composes and states its properties. The MC modules name the values
that the configurations choose from; `MCHandlers` also checks, as assumptions, that
each scenario of the dashboard can end as it announces. The `*Proofs` modules
hold the theorems: `JobSystemProofs` types, messages, retries and offsets,
`JobSystemPromiseProofs` what callers are promised,
`JobSystemLifecycleProofs` what holds while messages are delivered once.
`HandlersProofs` and `FrontEndsProofs` build on the second of them, and the latter
also has the theorems of the limiter. Operators whose comment says *Mutant* are not part of the specification: they show how a plausible
mistake would look, and each property is violated when the definition
of the same name is replaced by one of them.

## 3. Runs

Every run sets CHECK_DEADLOCK FALSE: when all requests are served, all messages
are processed and the clock has reached its bound, the system rightly stops.

| run | instance | properties |
|---|---|---|
| Delivery | 2 jobs of any of six payloads or replays of archived ones, 1 worker, a pause, 1 failing call; with fairness | AttemptsDoNotOverlap, ForgottenHasCause, ImplementsLifecycle, OutcomeIsDeserved |
| Handlers | 2 jobs, one with any of four payloads and perhaps a retry, 1 worker that may crash, 2 generations; with fairness | HandlersTypeOK, CompletedFileIsWhole, NoUndeservedOutcome, OutcomeIsDeserved |
| Faults | 1 job with a retry, 2 workers that may crash, 2 generations, pauses, 1 failing call | TypeOK, RetryChain, ArchivedOnlyExhausted, OutboxMatchesJobs, OnlyCrashesLose |
| Schedule | 2 jobs, past due or later, one of which may be cancelled, 1 failing call, 1 restart of the scheduler | NotBeforeDue, AcceptedIsRemembered, MessagesMatchRows, CancelledStaysCancelled |
| FrontEnds | 4 wishes (a registration, scenario C, a submission with a key, one without a type) that compete for 2 tries, limits of 1, 1 lost message or failing call or restart of the API, 1 restart of the scheduler, no workers; with fairness | FrontEndsTypeOK, AnswersAreTrue, DuplicatesAreBounded, IdempotentReplies, LimitRespected, RetryAfterIsEnough, EveryCallEnds, DueIsPromoted |
| LostMessage | 2 jobs, a worker that crashes | CommittedIsHandled: **violated** |
| PromotedLate | 1 delayed e-mail, nothing fails; with fairness | ScheduledIsFinished: **violated** |
| Consumer | 3 messages of 2 types and 2 priorities and a malformed one, 1 slot per type, a drain and a signal at any time; with fairness | ConsumerTypeOK, NoLostWakeup, SlotsAreHeld, ImplementsDispatcher, ProducedIsProcessed, DrainCompletesWhenBusy |
| DrainIdle | 2 messages, no limiter; with fairness | DrainCompletes: **violated** |
| Outbox | 3 rows, 2 senders with or without a mail server, 1 crash, 2 failing calls; with fairness | OutboxTypeOK, SentWasMailed, MailsAreBounded, OutboxIsDrained |
| SentTwice | 1 row, 1 sender, 1 crash | SentOnce: **violated** |
| Recurring | 2 schedules with periods 2 and 4, one may be deleted, 1 failing call, 1 restart; with fairness | RecurringTypeOK, NoRunSkipped, RepeatsAreBounded, DueScheduleMoves, DeletedFiresNoMore |

The two runs of OutcomeIsDeserved divide its question: Delivery has what
becomes of failing payloads and of replays, Handlers what becomes of jobs that are
delivered several times, where one commits offsets while the other is unfinished. In
Handlers the two jobs do not share an `out_path`.

### The four violations

**LostMessage.** `RunConsumer` starts a goroutine per message and each commits
its own offset when it is done. If the message at offset 2 finishes first, the
group's offset is beyond the message at offset 1 while that is still being
processed; a crash then loses message 1 and its job stays `processing`. This
disagrees with "Commits offset after process returns" (`consumer.go:92`) and with
the dashboard's scenario E (`cmd/dashboard/main.go:264`). `OnlyCrashesLose` is
what remains true, and is proved: without a killed process nothing is skipped.

**PromotedLate.** `promoteDue` enqueues the message and then sets the status to
`pending`, unconditionally. When the worker finishes the job between the two,
`pending` overwrites `completed` and stays, since there is no further message:
against scenario C, "Worker runs → completed" (`cmd/dashboard/main.go:260`).

**SentTwice.** `runOutboxBatch` sends and then marks the row. A process that ends
between the two leaves the row pending, and the e-mail is sent again: at least
once, not "exactly-once" as `schema.sql:45` and `store.go:91` say.
`MailsAreBounded` says how often at most, and `SentWasMailed` that the other
direction is right where every process has a mail server.

**DrainIdle.** The drain is tested only before `FetchMessage`, which waits for a
message. On an idle topic the worker never notices a requested drain, against
"the consumer stops fetching and exits" (`consumer.go:91`).
`DrainCompletesWhenBusy` is what remains true: a drain completes if the fetching
goroutine is not waiting for a message that never comes.

### Bounds, and why they are enough

| bound | meaning | values |
|---|---|---|
| `MaxLog` | messages on the topic | 2 to 4 with workers: a job with one retry, delivered twice, writes up to 4. `OneRetry` submits one retry where the front ends ask for two, so that the messages fit |
| `MaxFaults` | failing calls, lost requests and answers, restarts of the API | 0 to 2: every call may be the failing one, and each has its own recovery |
| `MaxTime` | clock | starts at 1, so that `run_at` 1 is past due and 2 is in the future |
| `Second` | the delay of a delayed submission, 60 seconds in the dashboard | 1, so that it becomes due |
| `MaxGenerations` | rebalances | 2: an old and a new owner of the partition. The owner of the last generation does not crash, so that the liveness runs end with a worker |
| `MaxRestarts` | scheduler restarts | 1 |
| `Cancellable`, `Pausable` | who receives a cancel or a pause | one cancel per job |
| `PerQueue`, `Global`, `Minute` | the limits, and the seconds in a minute | 1, so that two tries meet a limit and a second is enough for a token; the theorems cover every value |
| `MaxRows`, `MaxCrashes` | outbox rows, crashes of senders | 3 rows, more than the `BatchLimit` 2, so that a batch can be full; 1 crash |
| `Mutable`, and `MaxRestarts` of Recurring | schedules that may be deleted; scheduler restarts | 1 and 1 |

When `MaxLog` is reached an Enqueue cannot happen. Delivery and PromotedLate have
room for every message their jobs can produce. Handlers has room for the three
messages of one job with a redelivered attempt, or for two jobs and a retry;
`RoomForRetries` leaves the executions with more than that out of OutcomeIsDeserved.
So no counterexample is due to a full log. `Offers` and `Generated` say what may be
submitted as each job. Recurring has five jobs for the three runs before its
clock stops, one failure and one restart, so it never runs out of them; its two
schedules are due together at time 4. No run uses symmetry.

AttemptsDoNotOverlap and ImplementsLifecycle are stated for executions without
redelivery: with a crash or a lost commit they are false in this code, and
nothing in the repository promises otherwise. ForgottenHasCause is stated for
them too: LostMessage shows a job that is forgotten by a crash. The theorems about
the three have the condition as `DeliveredOnce`, which Delivery's constants meet.

OutcomeIsDeserved is stated for **calm** executions: no call fails, no operator
pauses or cancels, no process dies over a message that somebody else was given too,
and none over a message that nobody will be given again. The last two conditions are
needed, and both are about crashes:

- After a rebalance the goroutine of the old generation goes on. It may fail an
  attempt that the new one has completed, write `failed` over `completed`, and die
  before it enqueues the retry or archives the job, which then stays failed.
- A crash loses the messages that were in work below the committed offset
  (LostMessage), or that a goroutine of an older generation had in work while the
  new one started behind them. Their jobs stay as they are. `KilledAreRedelivered`
  excludes no more than that: a consumer that skips a message nobody had begun
  violates the property.

Rebalances, and crashes after which all that was in work is delivered once more, do no
such harm: that is what Handlers checks, with two jobs. NoUndeservedOutcome is the
safety part and needs no calm: whatever happens, a job that is completed had an
attempt that could succeed, and one that is archived failed in its last.

### Fairness

`FairSpec` assumes weak fairness of the clock, of the steps of a request that
has arrived, of `Fetch`, of every goroutine's next step, of `Join` while no
worker has the partition, and of the promoter. In the code these are the Go
scheduler, the consumer's loop, the group coordinator (or the restart policy of
the deployment), and the promoter's ticker. No fairness is assumed of arrivals,
cancels, pauses, crashes, rebalances of a live worker, restarts or of a call's
success: a handler may fail each time, a call may fail until the bound is used.

`FairHandlersSpec` is the same for the parts that Handlers has, with each
goroutine's next step including what it does to its file. `FairFrontEndsSpec` adds
the server's steps for a request that has arrived, the front end's for an answer
that is there, and the end of a connection to a dead server. That anybody asks or
asks again is left to chance.

Consumer's `FairSpec` has weak fairness of each goroutine and of main's exit, and
strong fairness of `FetchMessage`: it may report passing errors, but not for ever
while there are messages. Nobody is obliged to write a message or to ask for a
drain. `FairOutboxSpec` and `FairRecurringSpec` have weak fairness of the senders'
and the loop's steps, which are their tickers; crashes, restarts and failures
are bounded, since nothing finishes if every attempt is struck.

## 4. Proofs

Each theorem holds for every value of the constants that satisfies the named
assumptions of the modules it is about: any number of jobs, workers, queues,
retries, faults, generations, senders, messages, slots, schedules and wishes, any
limits. The assumptions type the constants (`StoreAssumption`, `APIAssumption`,
`WorkerAssumption`, `PromoterAssumption`, `ConsumerAssumption`, `LimiterAssumption`,
`SecondAssumption`, `HandlersAssumption`, `FrontEndsAssumption`, `OutboxAssumption`,
`RecurringAssumption`); the last two also say that `Senders` and `Schedules` are
finite, since theorems there count.

JobSystem, in `JobSystemProofs`, `JobSystemPromiseProofs` and
`JobSystemLifecycleProofs`:

| theorem | statement | argument |
|---|---|---|
| TypeCorrect | `Spec => []TypeOK` | `Typed`: TypeOK, and a goroutine exists only for a message that is on the log; needed because `Msg(t)` is meaningless otherwise. One lemma per component |
| MessagesAlwaysMatchRows | `Spec => []MessagesMatchRows` | `RowInv`: Typed, a request in `dispatch` has its row with its own work (`RowsOfRequests`), and what the promoter listed exists (`DueExists`): those are the two writers of fresh messages; rows never lose their work (`RowsKept` lemmas), and a retry copies the message before it |
| RetriesFormChains | `Spec => []RetryChain` | `ChainInv`: Typed, RetryChain, and a goroutine at `retry` has budget left (`RetryBudget`), from the test in `Fail`; the log only grows (`LogStep`, `MsgKept`), so the attempt behind a retry stays |
| NothingElseLosesMessages | `Spec => []OnlyCrashesLose` | `NoGaps`: every offset up to `fetched` or `committed` has a goroutine in some generation, as a generation starts at `committed` and fetches one message at a time, and a goroutine commits only its own offset |
| DelayIsKept | `Spec => []NotBeforeDue` | `TimeInv`: RowInv, and what the promoter listed is due (`DueIsDue`); a retry follows a message that was due, and the clock never goes back |
| AcceptedAreRemembered | `Spec => []AcceptedIsRemembered` | `AcceptedInv`: a request that returned its own id wrote the message or has a delayed row (`RepliesStand`), a delayed row stays `scheduled` until it has a message or is cancelled (`DelayedWait`), and the row the promoter is about to update has its message (`CurrentIsEnqueued`) |
| OnlyExhaustedAreArchived | `Spec => []ArchivedOnlyExhausted` | `ExhaustedInv`: ChainInv, and a goroutine at `archive` has the last permitted attempt (`ArchiveIsLast`) |
| OutboxAlwaysMatches | `Spec => []OutboxMatchesJobs` | `OutboxInv`: RowInv, and an outbox row is about a row that exists (`OutboxExists`) |
| KeysGiveOneJob | `Spec => []IdempotentReplies` | `KeyInv`: two rows never share type, queue and key (`KeysAreUnique`, the index), and a request that is done was given the row with its key (`RepliesFit`): then two answers are one row |
| CancellationHolds | `Spec => CancelledStaysCancelled` | who may write a row (`RowWriters`) and that no goroutine gets past the test for a cancelled row (`NobodyStarts`) |
| CancellationHoldsOutside | `OpenSpec => CancelledStaysCancelled` | the same with requests from outside, which change neither rows nor messages (`OutsideStep`) |
| PromisesAreKept | `OpenSpec => []Promises` | `SystemInv`, all the invariants above together, is kept by `Outside` too, see below |
| AttemptsAreSeparate | `DeliveredOnce /\ Spec => []AttemptsDoNotOverlap` | `LifeInv`, below: two goroutines at work on a job are goroutines of two open messages |
| StatusIsALifecycle | `DeliveredOnce /\ Spec => ImplementsLifecycle` | `LifeInv`: whoever writes a row has an open message, so the row is not settled and not ahead of it; `WithinAllowance` bounds the attempt by what the request asked for |
| OnlyFailuresForget | `DeliveredOnce /\ Spec => ForgottenHasCause` | under `LifeInv`, a job is attended if a request is about to write its message or it has an open one (`CarriedIsAttended`); a step that neither fails nor meets a paused queue finishes the job, keeps that message open, or writes the next (`TaskCares`, `RequestsCare`) |

`DeliveredOnce` says that there is one generation and that jobs are submitted for
now and not cancelled; calls may fail and queues be paused. A message is *open* while
something is yet to be done about its job: it is not fetched, or its goroutine has
neither settled the job nor written the next attempt. `LifeInv` is RowInv and
ExhaustedInv with: a job has at most one open message (`OneOpen`), its row is
unsettled and not ahead of that message (`RowsFollow`), a job has messages only
after its request has ended, with the retries that it asked for (`Asked`), the one
generation fetches without gaps and does not end (`OneGeneration`), and nobody else
writes (`NoExtras`). The properties are far from inductive without it: a second open
message would bring a second goroutine, and a row ahead of its message would go back.

The compositions, in `HandlersProofs` and `FrontEndsProofs`. Both add two kinds of
steps to JobSystem that its `Next` does not have: a submission of any body, not only
one of `Submissions`, and the end of the API process, which fails requests wherever
they are. `OpenNext` is `Next` with these (`Outside`), and `OpenSpec` its
specification; the promises TypeOK, MessagesMatchRows, RetryChain, NotBeforeDue,
AcceptedIsRemembered, ArchivedOnlyExhausted, OutboxMatchesJobs, IdempotentReplies
and OnlyCrashesLose do not need to know who asks, nor that requests reach their end.

| theorem | statement | argument |
|---|---|---|
| HandlersAreASystem, HandlersKeepPromises | `HandlersSpec => OpenSpec`, `=> []Promises /\ CancelledStaysCancelled` | `HandlersAreOpen`: each step is a step of OpenNext or leaves the system alone |
| HandlersTypes | `HandlersSpec => []HandlersTypeOK` | `StagesFit`: a goroutine has a file in hand only while it is in its handler, or killed, and only for a payload that writes one |
| CompletedFilesAreWhole | `HandlersSpec => []CompletedFileIsWhole` | `HandlersInv`: a job is completed only by a goroutine that wrote its file (`CompletedWrote`), and the file of a job that shares it with nobody is whole once written, unless a second delivery has it open or was killed with it open (`OwnFiles`, with `FilesHaveOwners`). That message and payload agree (`PayloadsFit`) rests on MessagesMatchRows |
| OutcomesAreDeserved | `HandlersSpec => []NoUndeservedOutcome` | `OutcomeInv`: a request has the retries and the validity it was submitted with, replays included (`WorksFit`), so have its messages (`MessagesAsAsked`), and who is about to archive has failed (`ArchivesFail`). RetryChain keeps every attempt within the retries, ArchiveIsLast makes the one that archives the last; what a job may come to, it may come to for good (`OutcomesGrow`) |
| FrontEndsKeepPromises | `FrontEndsSpec => []Promises` | part of `FrontInv`, by `FrontEndsAreOpen` |
| FrontEndsTypes | `FrontEndsSpec => []FrontEndsTypeOK` | `ExchangesFit`: how far an exchange is determines how far the backend can be with it |
| AnswersStayTrue | `FrontEndsSpec => []AnswersAreTrue` | `ExchangesFit`, what a user knows was the answer to that try (`CallsFit`), and the row of a request that was answered is of the type it asked for (`RepliesAreRows`, which a reply to a repeated key gets from the lookup by type, queue and key); then AcceptedInv |
| DuplicatesStayBounded | `FrontEndsSpec => []DuplicatesAreBounded` | `OneAtATime`: nobody tries again before an error, so at most one try is without one; `FailuresPaid`: the tries that left a job although the user got an error, or may still leave one, or will get an error for one, are at most as many as failures. The property alone is not inductive: a request whose client is gone makes its row later. With a key the index (`KeysAreUnique`) leaves one |

That a step of Handlers or FrontEnds is one of the open system is what makes these
compositions refinements: a client that gives up, a duplicate try or a handler that
dies over its file is nothing JobSystem would have to be told.

The other components:

| theorem | statement | argument |
|---|---|---|
| LimitIsRespected | `LimiterSpec => []LimitRespected` | `LimiterInv` with `Budget`: the tokens given since the i-th grant and those left are at most a full bucket and what was gained since. LimitRespected alone is not inductive: it says nothing of what is left |
| RetryAfterSuffices | `LimiterSpec => []RetryAfterIsEnough` | `BurstBounds`: a positive limit has a burst of at least 1 and at most the limit, so a minute's gain fills the bucket, and a full one has a token |
| ServerLimits | `FrontEndsSpec => LimiterSpec` | every step of the server, the front ends and the promoter is one Take, a restart, a step of the clock, or leaves the limiter alone; `Served` is the invariant it needs: a request names a queue that has a bucket |
| SubmissionsAreLimited, WaitingIsEnough | `FrontEndsSpec => []LimitRespected`, `[]RetryAfterIsEnough` | from the two facts about LimiterSpec by that refinement |
| SentMeansMailed | `OutboxSpec => []SentWasMailed` | `OutcomeIsTrue`: where every process has a mail server, a sender that is about to write "sent" had its first row mailed; without it the step `Mark` says nothing |
| OutboxTypes | `OutboxSpec => []OutboxTypeOK` | part of the same invariant |
| MailsAreLimited | `OutboxSpec => []MailsAreBounded` | `MailBudget`: the e-mails of a row and the senders that may still send it (`MaySend`) are at most as many as senders, crashes and faults together: sending uses up one, and only a crash or a fault gives it back |
| WakeupsArrive | `Spec => []NoLostWakeup` | inductive with the typing it needs: whoever adds an item or sets the flag also wakes, and waiting starts only when there is neither |
| ConsumerDispatches | `Spec => ImplementsDispatcher` | `QueueInv`: no message is on the topic twice, what is in hand, queued or begun was fetched before (`CustodyIsFetched`), so the next one is new, and the fetching goroutine has nothing in hand once the drain flag is set (`Handover`); so each step is Accept, Begin, Close, Cancel or a stutter |
| SlotsAreAccountedFor | `Spec => []SlotsAreHeld` | `SlotInv`, and what is queued has not begun (`WaitingIsNotBegun`), so that a goroutine enters the limiter at most once |
| ConsumerTypes | `Spec => []ConsumerTypeOK` | those invariants with `ProcessTyped`; that a slot is not given back twice is SlotsAreHeld's matter |
| RecurringTypes | `RecurringSpec => []RecurringTypeOK` | part of `LoopInv` |
| NothingIsSkipped | `RecurringSpec => []NoRunSkipped` | `LoopInv`: a schedule stands at one of its matches (`OnSchedule`), the list says what the rows said and they have not moved since (`ListIsTrue`), the job in hand belongs to the first element (`InHand`), a message has a run (`TopicIsExplained`); lemma `Match`: between a match and the next there is none |
| RepeatsArePaidFor | `RecurringSpec => []RepeatsAreBounded` | `Paid`: a run has at most one job more than there were failures and restarts, and while it is still `Owed` (listed, or ahead of its schedule) not even that one; only a failure or a restart makes it owed again |
| DeletedIsQuiet | `RecurringSpec => DeletedFiresNoMore` | from `ListIsTrue` (a schedule is in the list once) and `InHand` |

The proofs are by induction on steps: one lemma per component, one step per
action.

Every invariant and every safety property over steps that a passing run checks is
stated by a theorem. Liveness stays with TLC altogether: OutcomeIsDeserved,
EveryCallEnds, DueIsPromoted, ProducedIsProcessed, DrainCompletesWhenBusy,
OutboxIsDrained, DueScheduleMoves. So do the four violations.

## 5. Not modelled

- Lifecycle events (best effort, no consumer in the repository), metrics,
  tracing, logging and the generated gRPC code: they do not write what the
  modelled parts read.
- `internal/ingest`: no command starts it.
- Reads for display: ListJobs and its pages, ListQueues, ListArchivedJobs, the dashboard's pages and proxies.
- The limit of 50 rows per tick of the promoter and of the recurring loop: what
  is left is listed by a later tick.
- The contents of e-mails, invoices, reports and images. An image with an
  `out_path` is written like a report, but no front end submits one.
- Cron expressions beyond a period, and time zones.
- Several partitions: `job.requests` is created with one, and partitions do not
  share offsets.

Four things met while reading, about which no property is stated:

- A cancel of a running or completed job is answered 400, not 409 as
  `writeBackendError` intends: the error text (`backend.go:207`) contains "not
  found", which is tested first (`rest.go:114`).
- `GetArchivedJob` and with it the API report a database error as "not found"
  (`backend.go:238`).
- The attempt in the handler's context is called 1-based (`handler.go:5`) and
  counts from 0. `Payloads` follows the code.
- The drain is to have the worker "stop fetching and exit after current work"
  (`rest.go:334`), but RunConsumer does not wait for its goroutines, and main exits
  when it returns (`cmd/worker/main.go:288`). `Crash` and `Exit` follow the code.

## 6. Plan

Done: the shared store, the API, the workers, the promoter and their
composition; the inside of the consumer and its abstract specification; the
outbox processor; the recurring schedules; the rate limiter and its place in the
server; the handlers and their files; the front ends; the theorems above. Left:
the composition of Recurring with the workers, whose messages differ from
submitted ones only in their origin, and with it a theorem that what
NothingIsSkipped puts on the topic keeps the promises.
