--------------------------- MODULE JobSystemProofs ---------------------------
(***************************************************************************)
(* Machine-checked proofs about JobSystem, for every value of its          *)
(* constants: its types, that what the topic says of a job agrees with the *)
(* job's row, the chain of retries, and what the consumer group owes to    *)
(* the committed offset.  The modules that EXTEND this one build on them.  *)
(***************************************************************************)
EXTENDS JobSystem, SequenceTheorems, TLAPS

-----------------------------------------------------------------------------
(* Type correctness *)

LEMMA StatusType ==
  ASSUME StoreTypeOK, NEW j \in Jobs, NEW s \in Statuses, NEW a \in Nat
  PROVE  WithStatus(j, s, a) \in [Jobs -> Rows]
BY DEF StoreTypeOK, WithStatus, Rows, Exists

LEMMA RowType ==
  ASSUME StoreTypeOK, NEW j \in Jobs, NEW s \in Statuses, NEW w \in Works
  PROVE  WithRow(j, s, w) \in [Jobs -> Rows]
BY DEF StoreTypeOK, WithRow, Rows

LEMMA MessageType ==
  ASSUME NEW j \in Jobs, NEW w \in Works, NEW a \in Nat, NEW n \in Int
  PROVE  Message(j, w, a, n) \in Messages
BY DEF Message, Messages, Works, Retries

LEMMA AppendLog ==
  ASSUME StoreTypeOK, NEW m \in Messages, Append1(m)
  PROVE  /\ log' \in Seq(Messages)
         /\ Len(log') = Len(log) + 1
         /\ \A o \in 1 .. Len(log) : log'[o] = log[o]
         /\ log'[Len(log) + 1] = m
BY AppendProperties DEF StoreTypeOK, Append1

LEMMA EnqueueType ==
  ASSUME StoreTypeOK, NEW m \in Messages, EnqueueOk(m) \/ EnqueueError(m)
  PROVE  /\ log' \in Seq(Messages)
         /\ Len(log') \in Nat /\ Len(log) \in Nat /\ Len(log') >= Len(log)
         /\ faults' \in Nat
<1>1. Len(log) \in Nat /\ faults \in Nat /\ log \in Seq(Messages)
  BY LenProperties DEF StoreTypeOK
<1>2. CASE UNCHANGED log
  BY <1>1, <1>2 DEF EnqueueOk, EnqueueError, Fault
<1>3. CASE Append1(m)
  BY <1>1, <1>3, AppendLog DEF EnqueueOk, EnqueueError, Fault
<1> QED
  BY <1>2, <1>3 DEF EnqueueOk, EnqueueError

LEMMA TryStatusType ==
  ASSUME StoreTypeOK, NEW j \in Jobs, NEW s \in Statuses, NEW a \in Nat,
         TryStatus(j, s, a)
  PROVE  jobs' \in [Jobs -> Rows] /\ faults' \in Nat
BY StatusType DEF TryStatus, Fault, StoreTypeOK

LEMMA LogLength == StoreTypeOK => Len(log) \in Nat
BY LenProperties DEF StoreTypeOK

(* Goroutines exist only for messages that are on the topic. *)
TaskOffsets ==
  \A t \in Tasks : task[t] # "none" => t[2] \in 1 .. Len(log)

Typed == TypeOK /\ TaskOffsets

LEMMA MsgType ==
  ASSUME Typed, NEW t \in Tasks, task[t] # "none"
  PROVE  Msg(t) \in Messages /\ Msg(t).attempt + 1 \in Nat
<1>1. Msg(t) \in Messages
  BY ElementOfSeq DEF Typed, TypeOK, StoreTypeOK, TaskOffsets, Msg
<1> QED
  BY <1>1 DEF Messages

\* What the worker's variables owe to the log is only that it grows.
LEMMA WorkerKept ==
  ASSUME WorkerTypeOK, TaskOffsets, UNCHANGED workerVars,
         Len(log) \in Nat, Len(log') \in Nat, Len(log') >= Len(log)
  PROVE  WorkerTypeOK' /\ TaskOffsets'
<1>1. TaskOffsets'
  BY DEF TaskOffsets, workerVars, Tasks, Offsets
<1>2. fetched' \in 0 .. Len(log') /\ committed' \in 0 .. Len(log')
  BY DEF WorkerTypeOK, workerVars
<1> QED
  BY <1>1, <1>2 DEF WorkerTypeOK, workerVars

LEMMA APIKept ==
  APITypeOK /\ UNCHANGED apiVars => APITypeOK'
BY DEF APITypeOK, apiVars

LEMMA PromoterKept ==
  PromoterTypeOK /\ UNCHANGED promoVars => PromoterTypeOK'
BY DEF PromoterTypeOK, promoVars

LEMMA StoreKept ==
  StoreTypeOK /\ UNCHANGED storeVars => StoreTypeOK'
BY DEF StoreTypeOK, storeVars

THEOREM InitTyped == Init => TypeOK
<1> SUFFICES ASSUME Init PROVE TypeOK
  OBVIOUS
<1>1. Blank \in Works
  BY StoreAssumption DEF StoreAssumption, Blank, Works, JobTypes
<1>2. StoreTypeOK
  BY <1>1 DEF Init, StoreInit, StoreTypeOK, Rows, Statuses
<1>3. APITypeOK
  BY <1>1 DEF Init, APIInit, APITypeOK, Requests
<1>4. WorkerTypeOK
  <2>1. Len(log) = 0 /\ member \in Seq(Workers) /\ Len(member) = 0
    BY EmptySeq DEF Init, WorkerInit, StoreInit
  <2>2. task \in [Tasks -> TaskStates]
    BY DEF Init, WorkerInit, TaskStates
  <2>3. gen = 0 /\ fetched = 0 /\ committed = 0 /\ gen \in 0 .. MaxGenerations
    BY WorkerAssumption DEF WorkerAssumption, Init, WorkerInit
  <2>4. live \in BOOLEAN
    BY DEF Init, WorkerInit
  <2> QED
    BY <2>1, <2>2, <2>3, <2>4 DEF WorkerTypeOK
<1>5. PromoterTypeOK
  BY PromoterAssumption
  DEF PromoterAssumption, Init, PromoterInit, PromoterTypeOK
<1> QED
  BY <1>2, <1>3, <1>4, <1>5 DEF TypeOK

\* The requests of the API keep the types.
LEMMA APITyped ==
  ASSUME Typed, APINext, UNCHANGED <<workerVars, promoVars>>
  PROVE  Typed'
<1> USE DEF Typed, TypeOK
<1>0. Len(log) \in Nat
  BY LogLength
<1>1. ASSUME NEW j \in Jobs, NEW s \in Submissions, Submit(j, s)
      PROVE  Typed'
  <2>1. APITypeOK'
    BY <1>1, APIAssumption DEF APIAssumption, Submit, APITypeOK, Requests
  <2> QED
    BY <1>0, <1>1, <2>1, StoreKept, WorkerKept, PromoterKept
    DEF Submit, storeVars
<1>2. ASSUME NEW j \in Jobs, Lookup(j)
      PROVE  Typed'
  <2>1. APITypeOK'
    BY <1>2 DEF Lookup, APITypeOK, Requests, Goto, Reply, SameKey
  <2>2. StoreTypeOK'
    BY <1>2 DEF Lookup, StoreTypeOK, Fault
  <2> QED
    BY <1>0, <1>2, <2>1, <2>2, WorkerKept, PromoterKept DEF Lookup
<1>3. ASSUME NEW j \in Jobs, CreateRow(j)
      PROVE  Typed'
  <2> DEFINE w == req[j].work
             inserted == WithRow(j, IF w.runAt > 0 THEN "scheduled" ELSE "pending", w)
  <2>1. w \in Works /\ inserted \in [Jobs -> Rows]
    BY RowType DEF APITypeOK, Requests, Statuses
  <2>2. APITypeOK'
    BY <1>3 DEF CreateRow, APITypeOK, Requests, Goto
  <2>3. StoreTypeOK'
    BY <1>3, <2>1 DEF CreateRow, StoreTypeOK, Fault
  <2> QED
    BY <1>0, <1>3, <2>2, <2>3, WorkerKept, PromoterKept DEF CreateRow
<1>4. ASSUME NEW j \in Jobs, Dispatch(j)
      PROVE  Typed'
  <2>1. APITypeOK'
    BY <1>4 DEF Dispatch, APITypeOK, Requests, Goto, Reply
  <2>2. Message(j, req[j].work, 0, req[j].maxRetry) \in Messages
    BY MessageType DEF APITypeOK, Requests
  <2>3. StoreTypeOK' /\ Len(log') \in Nat /\ Len(log') >= Len(log)
    BY <1>0, <1>4, <2>2, EnqueueType DEF Dispatch, StoreTypeOK
  <2> QED
    BY <1>0, <1>4, <2>1, <2>3, WorkerKept, PromoterKept DEF Dispatch
<1>5. ASSUME NEW j \in Jobs, NEW src \in Jobs, NEW q \in Queues,
             RetryArchivedJob(j, src, q)
      PROVE  Typed'
  <2>1. [Blank EXCEPT !.type = jobs[src].work.type,
                      !.valid = jobs[src].work.valid,
                      !.queue = q] \in Works
    BY DEF Blank, Works, StoreTypeOK, Rows
  <2>2. APITypeOK'
    BY <1>5, <2>1 DEF RetryArchivedJob, APITypeOK, Requests
  <2> QED
    BY <1>0, <1>5, <2>2, StoreKept, WorkerKept, PromoterKept
    DEF RetryArchivedJob, storeVars
<1>6. ASSUME NEW j \in Jobs, CancelCheck(j)
      PROVE  Typed'
  <2>1. APITypeOK'
    BY <1>6 DEF CancelCheck, APITypeOK
  <2> QED
    BY <1>0, <1>6, <2>1, StoreKept, WorkerKept, PromoterKept
    DEF CancelCheck, storeVars
<1>7. ASSUME NEW j \in Jobs, CancelWrite(j)
      PROVE  Typed'
  <2>1. APITypeOK'
    BY <1>7 DEF CancelWrite, APITypeOK
  <2>2. WithStatus(j, "cancelled", 0) \in [Jobs -> Rows]
    BY StatusType DEF Statuses
  <2>3. StoreTypeOK'
    BY <1>7, <2>2 DEF CancelWrite, StoreTypeOK, Fault
  <2> QED
    BY <1>0, <1>7, <2>1, <2>3, WorkerKept, PromoterKept DEF CancelWrite
<1>8. ASSUME NEW q \in Queues, NEW p \in BOOLEAN, SetQueuePaused(q, p)
      PROVE  Typed'
  <2>1. StoreTypeOK'
    BY <1>8 DEF SetQueuePaused, StoreTypeOK
  <2> QED
    BY <1>0, <1>8, <2>1, APIKept, WorkerKept, PromoterKept DEF SetQueuePaused
<1> QED
  BY <1>1, <1>2, <1>3, <1>4, <1>5, <1>6, <1>7, <1>8
  DEF APINext, PauseQueue, UnpauseQueue

\* A step of a goroutine moves one task and leaves the group alone.
LEMMA TaskMoved ==
  ASSUME Typed, NEW t \in Tasks, task[t] # "none",
         NEW p \in TaskStates, Go(t, p), UNCHANGED <<gen, member, live, fetched>>,
         committed' \in 0 .. Len(log'),
         Len(log) \in Nat, Len(log') \in Nat, Len(log') >= Len(log)
  PROVE  WorkerTypeOK' /\ TaskOffsets'
<1> USE DEF Typed, TypeOK
<1>1. task' \in [Tasks -> TaskStates]
  BY DEF Go, WorkerTypeOK
<1>2. TaskOffsets'
  BY DEF Go, WorkerTypeOK, TaskOffsets, Tasks, Offsets
<1>3. fetched' \in 0 .. Len(log')
  BY DEF WorkerTypeOK
<1> QED
  BY <1>1, <1>2, <1>3 DEF WorkerTypeOK

\* The consumer group and the process closure keep the types.
LEMMA WorkerTyped ==
  ASSUME Typed, WorkerNext, UNCHANGED <<apiVars, promoVars>>
  PROVE  Typed'
<1> USE DEF Typed, TypeOK
<1>0. Len(log) \in Nat
  BY LogLength
<1>1. ASSUME NEW w \in Workers, Join(w)
      PROVE  Typed'
  <2>1. member' \in Seq(Workers) /\ Len(member') = gen'
    BY <1>1, AppendProperties DEF Join, WorkerTypeOK
  <2>2. gen' \in 0 .. MaxGenerations
    BY <1>1, WorkerAssumption DEF WorkerAssumption, Join, WorkerTypeOK
  <2>3. fetched' \in 0 .. Len(log') /\ committed' \in 0 .. Len(log')
    BY <1>1 DEF Join, WorkerTypeOK, storeVars
  <2>4. WorkerTypeOK' /\ TaskOffsets'
    BY <1>1, <2>1, <2>2, <2>3 DEF Join, WorkerTypeOK, TaskOffsets, storeVars
  <2> QED
    BY <1>1, <2>4, StoreKept, APIKept, PromoterKept DEF Join
<1>2. ASSUME NEW w \in Workers, Crash(w)
      PROVE  Typed'
  <2>1. task' \in [Tasks -> TaskStates]
    BY <1>2 DEF Crash, WorkerTypeOK, TaskStates
  <2>2. TaskOffsets'
    BY <1>2 DEF Crash, TaskOffsets, Running, storeVars
  <2>3. live' \in BOOLEAN
    BY <1>2 DEF Crash
  <2>4. WorkerTypeOK'
    BY <1>2, <2>1, <2>3 DEF Crash, WorkerTypeOK, storeVars
  <2> QED
    BY <1>2, <2>2, <2>4, StoreKept, APIKept, PromoterKept DEF Crash
<1>3. ASSUME Fetch
      PROVE  Typed'
  <2>1. fetched' \in 0 .. Len(log) /\ fetched + 1 \in 1 .. Len(log)
    BY <1>0, <1>3 DEF Fetch, WorkerTypeOK
  <2>2. task' \in [Tasks -> TaskStates]
    BY <1>3 DEF Fetch, WorkerTypeOK, TaskStates
  <2>3. ASSUME NEW t \in Tasks, task'[t] # "none"
        PROVE  t[2] \in 1 .. Len(log)
    <3>1. CASE t = <<gen, fetched + 1>>
      BY <2>1, <3>1
    <3>2. CASE t # <<gen, fetched + 1>>
      BY <1>3, <2>3, <3>2 DEF Fetch, WorkerTypeOK, TaskOffsets
    <3> QED
      BY <3>1, <3>2
  <2>4. TaskOffsets'
    BY <1>3, <2>3 DEF Fetch, TaskOffsets, storeVars
  <2>5. WorkerTypeOK'
    BY <1>3, <2>1, <2>2 DEF Fetch, WorkerTypeOK, storeVars
  <2> QED
    BY <1>3, <2>4, <2>5, StoreKept, APIKept, PromoterKept DEF Fetch
<1>4. ASSUME NEW t \in Tasks, TaskStep(t)
      PROVE  Typed'
  <2>0. Msg(t) \in Messages /\ Msg(t).attempt \in Nat /\ Msg(t).attempt + 1 \in Nat
        /\ Msg(t).job \in Jobs /\ task[t] # "none"
    <3>1. task[t] # "none"
      BY <1>4 DEF TaskStep, Admit, Load, Start, CompleteEmail, RejectUnknown,
                  Complete, Fail, Retry, Archive, Commit
    <3> QED
      BY <3>1, MsgType DEF Messages
  <2>1. CASE Admit(t) \/ Load(t)
    <3>1. WorkerTypeOK' /\ TaskOffsets'
      BY <1>0, <2>0, <2>1, TaskMoved
      DEF Admit, Load, WorkerTypeOK, groupVars, TaskStates
    <3>2. StoreTypeOK'
      BY <2>1 DEF Admit, Load, StoreTypeOK, Fault
    <3> QED
      BY <3>1, <3>2, APIKept, PromoterKept
  <2>2. CASE Start(t) \/ RejectUnknown(t) \/ Complete(t) \/ Fail(t) \/ Archive(t)
    <3>1. WorkerTypeOK' /\ TaskOffsets'
      BY <1>0, <2>0, <2>2, TaskMoved
      DEF Start, RejectUnknown, Complete, Fail, Archive, WorkerTypeOK,
          groupVars, TaskStates
    <3>2. jobs' \in [Jobs -> Rows] /\ faults' \in Nat
      BY <2>0, <2>2, TryStatusType
      DEF Start, RejectUnknown, Complete, Fail, Archive, Statuses
    <3>3. StoreTypeOK'
      BY <2>2, <3>2
      DEF Start, RejectUnknown, Complete, Fail, Archive, StoreTypeOK
    <3> QED
      BY <3>1, <3>3, APIKept, PromoterKept
  <2>3. CASE CompleteEmail(t)
    <3>1. WorkerTypeOK' /\ TaskOffsets'
      BY <1>0, <2>0, <2>3, TaskMoved
      DEF CompleteEmail, WorkerTypeOK, groupVars, TaskStates
    <3>2. jobs' \in [Jobs -> Rows] /\ faults' \in Nat
      <4>1. WithStatus(Msg(t).job, "completed", Msg(t).attempt) \in [Jobs -> Rows]
        BY <2>0, StatusType DEF Statuses
      <4> QED
        BY <2>3, <4>1 DEF CompleteEmail, CompleteJobWithOutbox, StoreTypeOK, Fault
    <3>3. outbox' \in Seq(OutboxRows)
      <4>1. [job |-> Msg(t).job, status |-> "pending"] \in OutboxRows
        BY <2>0 DEF OutboxRows
      <4>2. Append(outbox, [job |-> Msg(t).job, status |-> "pending"])
              \in Seq(OutboxRows)
        BY <4>1, AppendProperties DEF StoreTypeOK
      <4> QED
        BY <2>3, <4>2 DEF CompleteEmail, CompleteJobWithOutbox, StoreTypeOK
    <3>4. StoreTypeOK'
      BY <2>3, <3>2, <3>3 DEF CompleteEmail, StoreTypeOK
    <3> QED
      BY <3>1, <3>4, APIKept, PromoterKept
  <2>4. CASE Retry(t)
    <3>1. [Msg(t) EXCEPT !.attempt = @ + 1] \in Messages
      BY <2>0 DEF Messages
    <3>2. /\ log' \in Seq(Messages)
          /\ Len(log') \in Nat /\ Len(log') >= Len(log) /\ faults' \in Nat
      BY <2>4, <3>1, EnqueueType DEF Retry
    <3>3. WorkerTypeOK' /\ TaskOffsets'
      BY <1>0, <2>0, <2>4, <3>2, TaskMoved
      DEF Retry, WorkerTypeOK, groupVars, TaskStates
    <3>4. StoreTypeOK'
      BY <2>4, <3>2 DEF Retry, StoreTypeOK
    <3> QED
      BY <3>3, <3>4, APIKept, PromoterKept
  <2>5. CASE Commit(t)
    <3>1. committed' \in 0 .. Len(log)
      BY <1>0, <2>0, <2>5 DEF Commit, WorkerTypeOK, TaskOffsets
    <3>2. WorkerTypeOK' /\ TaskOffsets'
      BY <1>0, <2>0, <2>5, <3>1, TaskMoved DEF Commit, TaskStates
    <3>3. StoreTypeOK'
      BY <2>5 DEF Commit, StoreTypeOK, Fault
    <3> QED
      BY <3>2, <3>3, APIKept, PromoterKept
  <2> QED
    BY <1>4, <2>1, <2>2, <2>3, <2>4, <2>5 DEF TaskStep
<1> QED
  BY <1>1, <1>2, <1>3, <1>4 DEF WorkerNext

\* The promoter keeps the types.
LEMMA PromoterTyped ==
  ASSUME Typed, PromoterNext, UNCHANGED <<apiVars, workerVars>>
  PROVE  Typed'
<1> USE DEF Typed, TypeOK
<1>0. Len(log) \in Nat
  BY LogLength
<1>1. CASE List
  <2>1. PromoterTypeOK'
    BY <1>1 DEF List, PromoterTypeOK, DueItems, ScheduledDue, StoreTypeOK, Rows
  <2> QED
    BY <1>0, <1>1, <2>1, StoreKept, APIKept, WorkerKept DEF List, storeVars
<1>2. ASSUME NEW i \in due, PromoteEnqueue(i)
      PROVE  Typed'
  <2>1. PromoterTypeOK'
    BY <1>2 DEF PromoteEnqueue, IsNext, PromoterTypeOK
  <2>2. Message(i.job, jobs[i.job].work, 0, PromoteMaxRetry) \in Messages
    BY MessageType DEF PromoterTypeOK, DueItems, StoreTypeOK, Rows, PromoteMaxRetry
  <2>3. /\ log' \in Seq(Messages)
        /\ Len(log') \in Nat /\ Len(log') >= Len(log) /\ faults' \in Nat
    BY <1>2, <2>2, EnqueueType DEF PromoteEnqueue
  <2>4. StoreTypeOK'
    BY <1>2, <2>3 DEF PromoteEnqueue, StoreTypeOK
  <2> QED
    BY <1>0, <2>1, <2>3, <2>4, APIKept, WorkerKept
<1>3. ASSUME NEW i \in due, PromoteUpdate(i)
      PROVE  Typed'
  <2>1. PromoterTypeOK'
    BY <1>3 DEF PromoteUpdate, PromoterTypeOK
  <2>2. jobs' \in [Jobs -> Rows] /\ faults' \in Nat
    BY <1>3, TryStatusType DEF PromoteUpdate, PromoterTypeOK, DueItems, Statuses
  <2>3. StoreTypeOK'
    BY <1>3, <2>2 DEF PromoteUpdate, StoreTypeOK
  <2> QED
    BY <1>0, <1>3, <2>1, <2>3, APIKept, WorkerKept DEF PromoteUpdate
<1>4. CASE PromoterRestart
  <2>1. PromoterTypeOK'
    BY <1>4, PromoterAssumption
    DEF PromoterAssumption, PromoterRestart, PromoterTypeOK
  <2> QED
    BY <1>0, <1>4, <2>1, StoreKept, APIKept, WorkerKept
    DEF PromoterRestart, storeVars
<1> QED
  BY <1>1, <1>2, <1>3, <1>4 DEF PromoterNext, PromoterStep

LEMMA NextTyped == Typed /\ [Next]_vars => Typed'
<1> SUFFICES ASSUME Typed, [Next]_vars PROVE Typed'
  OBVIOUS
<1>0. Len(log) \in Nat
  BY LogLength DEF Typed, TypeOK
<1>1. CASE Tick /\ UNCHANGED <<apiVars, workerVars, promoVars>>
  <2>1. StoreTypeOK' /\ UNCHANGED log
    BY <1>1 DEF Tick, Typed, TypeOK, StoreTypeOK
  <2> QED
    BY <1>0, <1>1, <2>1, APIKept, WorkerKept, PromoterKept DEF Typed, TypeOK
<1>2. CASE UNCHANGED vars
  BY <1>0, <1>2, StoreKept, APIKept, WorkerKept, PromoterKept
  DEF Typed, TypeOK, vars, storeVars
<1> QED
  BY <1>1, <1>2, APITyped, WorkerTyped, PromoterTyped DEF Next

\* The variables of all components have their types, and goroutines only exist
\* for messages on the topic, in every behaviour of the system.
THEOREM TypeCorrect == Spec => []TypeOK
<1>1. Init => Typed
  BY InitTyped DEF Typed, TaskOffsets, Init, WorkerInit
<1>2. Typed => TypeOK
  BY DEF Typed
<1> QED
  BY <1>1, <1>2, NextTyped, PTL DEF Spec

-----------------------------------------------------------------------------
(* Rows are created once, never deleted, and keep their columns *)

\* A request inserts a row for a fresh id, and has done so before it enqueues.
RowsOfRequests ==
  \A j \in Jobs :
    /\ req[j].pc \in {"idle", "lookup", "create"} => ~Exists(j)
    /\ req[j].pc = "dispatch" => Exists(j) /\ jobs[j].work = req[j].work

\* What a step owes to the rows that exist.
RowsKept ==
  \A j \in Jobs : Exists(j) => jobs'[j].status # "absent"
                               /\ jobs'[j].work = jobs[j].work

\* An UPDATE adds no row.
NoNewRow ==
  \A j \in Jobs : ~Exists(j) => jobs'[j].status = "absent"

LEMMA UpdateKeepsRows ==
  ASSUME StoreTypeOK, NEW j \in Jobs, NEW s \in Statuses \ {"absent"}, NEW a,
         jobs' = WithStatus(j, s, a) \/ UNCHANGED jobs
  PROVE  RowsKept /\ NoNewRow
<1>1. CASE UNCHANGED jobs
  BY <1>1 DEF RowsKept, NoNewRow, Exists
<1>2. CASE jobs' = WithStatus(j, s, a)
  <2>1. /\ jobs'[j].work = jobs[j].work
        /\ jobs'[j].status = IF Exists(j) THEN s ELSE jobs[j].status
        /\ \A k \in Jobs \ {j} : jobs'[k] = jobs[k]
    BY <1>2 DEF StoreTypeOK, WithStatus
  <2> QED
    BY <2>1 DEF RowsKept, NoNewRow, Exists
<1> QED
  BY <1>1, <1>2

LEMMA UnchangedKeepsRows ==
  StoreTypeOK /\ UNCHANGED jobs => RowsKept /\ NoNewRow
BY DEF RowsKept, NoNewRow, Exists

LEMMA TryStatusKeepsRows ==
  ASSUME StoreTypeOK, NEW j \in Jobs, NEW s \in Statuses \ {"absent"}, NEW a,
         TryStatus(j, s, a)
  PROVE  RowsKept /\ NoNewRow
BY UpdateKeepsRows DEF TryStatus

LEMMA WorkerKeepsRows ==
  ASSUME Typed, WorkerNext
  PROVE  RowsKept /\ NoNewRow
<1>0. StoreTypeOK
  BY DEF Typed, TypeOK
<1>1. CASE UNCHANGED jobs
  BY <1>0, <1>1, UnchangedKeepsRows
<1>2. ASSUME NEW t \in Tasks, TaskStep(t)
      PROVE  RowsKept /\ NoNewRow
  <2>1. task[t] # "none"
    BY <1>2 DEF TaskStep, Admit, Load, Start, CompleteEmail, RejectUnknown,
                Complete, Fail, Retry, Archive, Commit
  <2>2. Msg(t).job \in Jobs
    BY <2>1, MsgType DEF Messages
  <2>3. CASE Admit(t) \/ Load(t) \/ Retry(t) \/ Commit(t)
    BY <1>0, <2>3, UnchangedKeepsRows DEF Admit, Load, Retry, Commit
  <2>4. CASE CompleteEmail(t)
    BY <1>0, <2>2, <2>4, UpdateKeepsRows
    DEF CompleteEmail, CompleteJobWithOutbox, Statuses
  <2>5. CASE Start(t) \/ RejectUnknown(t) \/ Complete(t) \/ Fail(t) \/ Archive(t)
    BY <1>0, <2>2, <2>5, TryStatusKeepsRows
    DEF Start, RejectUnknown, Complete, Fail, Archive, Statuses
  <2> QED
    BY <1>2, <2>3, <2>4, <2>5 DEF TaskStep
<1> QED
  BY <1>1, <1>2 DEF WorkerNext, Join, Crash, Fetch, storeVars

LEMMA PromoterKeepsRows ==
  ASSUME Typed, PromoterNext
  PROVE  RowsKept /\ NoNewRow
<1>0. StoreTypeOK /\ PromoterTypeOK
  BY DEF Typed, TypeOK
<1>1. CASE UNCHANGED jobs
  BY <1>0, <1>1, UnchangedKeepsRows
<1>2. ASSUME NEW i \in due, PromoteUpdate(i)
      PROVE  RowsKept /\ NoNewRow
  BY <1>0, <1>2, TryStatusKeepsRows
  DEF PromoteUpdate, PromoterTypeOK, DueItems, Statuses
<1> QED
  BY <1>1, <1>2
  DEF PromoterNext, PromoterStep, List, PromoteEnqueue, PromoterRestart, storeVars

LEMMA APIKeepsRows ==
  ASSUME Typed, RowsOfRequests, APINext
  PROVE  RowsKept /\ RowsOfRequests'
<1>0. StoreTypeOK /\ APITypeOK
  BY DEF Typed, TypeOK
<1>2. ASSUME NEW j \in Jobs, NEW s \in Submissions, Submit(j, s)
      PROVE  RowsKept /\ RowsOfRequests'
  <2>1. UNCHANGED jobs /\ ~Exists(j)
    BY <1>2 DEF Submit, storeVars, RowsOfRequests
  <2> QED
    BY <1>0, <1>2, <2>1, UnchangedKeepsRows
    DEF Submit, RowsOfRequests, APITypeOK, Exists
<1>3. ASSUME NEW j \in Jobs, Lookup(j)
      PROVE  RowsKept /\ RowsOfRequests'
  BY <1>0, <1>3, UnchangedKeepsRows
  DEF Lookup, Goto, Reply, RowsOfRequests, APITypeOK, Requests, Exists
<1>4. ASSUME NEW j \in Jobs, CreateRow(j)
      PROVE  RowsKept /\ RowsOfRequests'
  <2> DEFINE w == req[j].work
             s == IF w.runAt > 0 THEN "scheduled" ELSE "pending"
  <2>1. ~Exists(j)
    BY <1>4 DEF CreateRow, RowsOfRequests
  <2>2. CASE jobs' = WithRow(j, s, w) /\ (Goto(j, "dispatch") \/ Goto(j, "failed"))
    <3>1. /\ jobs'[j].status # "absent" /\ jobs'[j].work = w
          /\ \A k \in Jobs \ {j} : jobs'[k] = jobs[k]
      BY <1>0, <2>2 DEF WithRow, StoreTypeOK
    <3>2. /\ req'[j].work = w /\ req'[j].pc \in {"dispatch", "failed"}
          /\ \A k \in Jobs \ {j} : req'[k] = req[k]
      BY <1>0, <2>2 DEF Goto, APITypeOK, Requests
    <3> QED
      BY <2>1, <3>1, <3>2 DEF RowsKept, RowsOfRequests, Exists
  <2>3. CASE UNCHANGED jobs /\ Goto(j, "failed")
    BY <1>0, <2>3, UnchangedKeepsRows
    DEF Goto, RowsOfRequests, APITypeOK, Requests, Exists
  <2> QED
    BY <1>4, <2>2, <2>3 DEF CreateRow
<1>5. ASSUME NEW j \in Jobs, Dispatch(j)
      PROVE  RowsKept /\ RowsOfRequests'
  BY <1>0, <1>5, UnchangedKeepsRows
  DEF Dispatch, Goto, Reply, RowsOfRequests, APITypeOK, Requests, Exists
<1>6. ASSUME NEW j \in Jobs, NEW src \in Jobs, NEW q \in Queues,
             RetryArchivedJob(j, src, q)
      PROVE  RowsKept /\ RowsOfRequests'
  <2>1. UNCHANGED jobs /\ ~Exists(j)
    BY <1>6 DEF RetryArchivedJob, storeVars, RowsOfRequests
  <2> QED
    BY <1>0, <1>6, <2>1, UnchangedKeepsRows
    DEF RetryArchivedJob, RowsOfRequests, APITypeOK, Exists
<1>7. ASSUME NEW j \in Jobs, CancelWrite(j)
      PROVE  RowsKept /\ RowsOfRequests'
  <2>1. RowsKept /\ NoNewRow
    BY <1>0, <1>7, UpdateKeepsRows DEF CancelWrite, Statuses
  <2> QED
    BY <1>7, <2>1 DEF CancelWrite, RowsKept, NoNewRow, RowsOfRequests, Exists
<1>8. CASE UNCHANGED <<jobs, req>>
  BY <1>0, <1>8, UnchangedKeepsRows DEF RowsOfRequests, Exists
<1> QED
  BY <1>2, <1>3, <1>4, <1>5, <1>6, <1>7, <1>8
  DEF APINext, CancelCheck, PauseQueue, UnpauseQueue, SetQueuePaused, storeVars,
      apiVars

-----------------------------------------------------------------------------
(* Messages agree with rows *)

\* The promoter's list names jobs that have rows.
DueExists == \A i \in due : Exists(i.job)

RowInv == Typed /\ RowsOfRequests /\ DueExists /\ MessagesMatchRows

\* m says of its job what the row says.
Matches(m) ==
  /\ Exists(m.job)
  /\ m.type = jobs[m.job].work.type
  /\ m.valid = jobs[m.job].work.valid
  /\ m.queue = jobs[m.job].work.queue

LEMMA LogJobs ==
  ASSUME Typed
  PROVE  \A o \in 1 .. Len(log) : log[o] \in Messages /\ log[o].job \in Jobs
<1>1. log \in Seq(Messages)
  BY DEF Typed, TypeOK, StoreTypeOK
<1>2. \A o \in 1 .. Len(log) : log[o] \in Messages
  BY <1>1, ElementOfSeq
<1> QED
  BY <1>2 DEF Messages

LEMMA MatchKept ==
  ASSUME Typed, MessagesMatchRows, RowsKept, UNCHANGED log
  PROVE  MessagesMatchRows'
<1>1. \A o \in 1 .. Len(log) : log[o].job \in Jobs
  BY LogJobs
<1> QED
  BY <1>1 DEF MessagesMatchRows, RowsKept, Exists

LEMMA MatchAppended ==
  ASSUME Typed, MessagesMatchRows, RowsKept,
         NEW m \in Messages, Append1(m), Matches(m)
  PROVE  MessagesMatchRows'
<1>1. \A o \in 1 .. Len(log) : log[o].job \in Jobs
  BY LogJobs
<1>2. Len(log) \in Nat /\ m.job \in Jobs
  BY LogLength DEF Typed, TypeOK, Messages
<1>3. /\ Len(log') = Len(log) + 1
      /\ \A o \in 1 .. Len(log) : log'[o] = log[o]
      /\ log'[Len(log) + 1] = m
  BY AppendLog DEF Typed, TypeOK
<1>4. ASSUME NEW o \in 1 .. Len(log), NEW k \in Messages, k = log[o]
      PROVE  Matches(k)'
  <2>1. Matches(k) /\ k.job \in Jobs
    BY <1>1, <1>4 DEF MessagesMatchRows, Matches
  <2> QED
    BY <2>1 DEF Matches, RowsKept, Exists
<1>5. Matches(m)'
  BY <1>2 DEF Matches, RowsKept, Exists
<1>6. ASSUME NEW o \in 1 .. Len(log')
      PROVE  Matches(log[o])'
  <2>1. CASE o \in 1 .. Len(log)
    BY <1>3, <1>4, <2>1, LogJobs
  <2>2. CASE o = Len(log) + 1
    BY <1>3, <1>5, <2>2
  <2> QED
    BY <1>2, <1>3, <2>1, <2>2
<1> QED
  BY <1>6 DEF MessagesMatchRows, Matches

\* A message made from a row, and a message made from a message.
LEMMA MessageMatches ==
  ASSUME NEW j, Exists(j), NEW w, w = jobs[j].work, NEW a, NEW n
  PROVE  Matches(Message(j, w, a, n))
BY DEF Matches, Message

LEMMA MsgMatches ==
  ASSUME Typed, MessagesMatchRows, NEW t \in Tasks, task[t] # "none"
  PROVE  /\ Matches(Msg(t))
         /\ Matches([Msg(t) EXCEPT !.attempt = @ + 1])
<1>1. Matches(Msg(t))
  BY DEF Typed, TaskOffsets, MessagesMatchRows, Matches, Msg
<1>2. Msg(t) \in Messages
  BY MsgType
<1> QED
  BY <1>1, <1>2 DEF Matches, Messages

\* The only steps of the worker and the promoter that write to the topic.
LEMMA WorkerLog ==
  ASSUME WorkerNext
  PROVE  UNCHANGED log \/ \E t \in Tasks : Retry(t)
BY DEF WorkerNext, Join, Crash, Fetch, TaskStep, Admit, Load, Start,
       CompleteEmail, RejectUnknown, Complete, Fail, Archive, Commit, storeVars

LEMMA RowInvInit == Init => RowInv
<1> SUFFICES ASSUME Init PROVE RowInv
  OBVIOUS
<1>1. Typed
  BY InitTyped DEF Typed, TaskOffsets, Init, WorkerInit
<1>2. RowsOfRequests
  BY DEF RowsOfRequests, Exists, Init, StoreInit, APIInit
<1>3. MessagesMatchRows
  BY DEF MessagesMatchRows, Init, StoreInit
<1>4. DueExists
  BY DEF DueExists, Init, PromoterInit
<1> QED
  BY <1>1, <1>2, <1>3, <1>4 DEF RowInv

LEMMA RowInvNext == RowInv /\ [Next]_vars => RowInv'
<1> SUFFICES ASSUME RowInv, [Next]_vars PROVE RowInv'
  OBVIOUS
<1> USE DEF RowInv
<1>0. Typed' /\ StoreTypeOK /\ APITypeOK /\ PromoterTypeOK
  BY NextTyped DEF Typed, TypeOK
<1>1. CASE APINext /\ UNCHANGED <<workerVars, promoVars>>
  <2>1. RowsKept /\ RowsOfRequests'
    BY <1>1, APIKeepsRows
  <2>2. DueExists'
    BY <1>0, <1>1, <2>1 DEF DueExists, RowsKept, Exists, promoVars,
                            PromoterTypeOK, DueItems
  <2>3. CASE UNCHANGED log
    BY <1>0, <2>1, <2>2, <2>3, MatchKept
  <2>4. ASSUME NEW j \in Jobs, Dispatch(j)
        PROVE  MessagesMatchRows'
    <3> DEFINE m == Message(j, req[j].work, 0, req[j].maxRetry)
    <3>1. m \in Messages
      BY <1>0, MessageType DEF APITypeOK, Requests
    <3>2. Matches(m)
      BY <2>4, MessageMatches DEF Dispatch, RowsOfRequests
    <3> HIDE DEF m
    <3>3. UNCHANGED log \/ Append1(m)
      BY <2>4 DEF Dispatch, EnqueueOk, EnqueueError, m
    <3> QED
      BY <2>1, <3>1, <3>2, <3>3, MatchKept, MatchAppended
  <2> QED
    BY <1>0, <1>1, <2>1, <2>2, <2>3, <2>4
    DEF APINext, Submit, Lookup, CreateRow, RetryArchivedJob, CancelCheck,
        CancelWrite, PauseQueue, UnpauseQueue, SetQueuePaused, storeVars
<1>2. CASE WorkerNext /\ UNCHANGED <<apiVars, promoVars>>
  <2>1. RowsKept /\ NoNewRow
    BY <1>2, WorkerKeepsRows
  <2>2. DueExists'
    BY <1>0, <1>2, <2>1 DEF DueExists, RowsKept, Exists, promoVars,
                            PromoterTypeOK, DueItems
  <2>3. RowsOfRequests'
    BY <1>2, <2>1 DEF RowsOfRequests, RowsKept, NoNewRow, Exists, apiVars
  <2>4. ASSUME NEW t \in Tasks, Retry(t)
        PROVE  MessagesMatchRows'
    <3> DEFINE m == [Msg(t) EXCEPT !.attempt = @ + 1]
    <3>1. task[t] # "none"
      BY <2>4 DEF Retry
    <3>2. m \in Messages
      BY <3>1, MsgType DEF Messages
    <3>3. Matches(m)
      BY <3>1, MsgMatches
    <3> HIDE DEF m
    <3>4. UNCHANGED log \/ Append1(m)
      BY <2>4 DEF Retry, EnqueueOk, EnqueueError, m
    <3> QED
      BY <2>1, <3>2, <3>3, <3>4, MatchKept, MatchAppended
  <2> QED
    BY <1>0, <1>2, <2>1, <2>2, <2>3, <2>4, WorkerLog, MatchKept
<1>3. CASE PromoterNext /\ UNCHANGED <<apiVars, workerVars>>
  <2>1. RowsKept /\ NoNewRow
    BY <1>3, PromoterKeepsRows
  <2>2. RowsOfRequests'
    BY <1>3, <2>1 DEF RowsOfRequests, RowsKept, NoNewRow, Exists, apiVars
  <2>3. DueExists'
    <3>1. CASE List
      BY <3>1 DEF List, DueExists, ScheduledDue, Exists, storeVars
    <3>2. CASE ~List
      <4>1. due' \subseteq due
        BY <1>3, <3>2 DEF PromoterNext, PromoterStep, PromoteEnqueue,
                          PromoteUpdate, PromoterRestart
      <4> QED
        BY <1>0, <2>1, <4>1 DEF DueExists, RowsKept, Exists, PromoterTypeOK,
                                DueItems
    <3> QED
      BY <3>1, <3>2
  <2>4. ASSUME NEW i \in due, PromoteEnqueue(i)
        PROVE  MessagesMatchRows'
    <3> DEFINE m == Message(i.job, jobs[i.job].work, 0, PromoteMaxRetry)
    <3>1. m \in Messages
      BY <1>0, MessageType
      DEF PromoterTypeOK, DueItems, StoreTypeOK, Rows, PromoteMaxRetry
    <3>2. Matches(m)
      BY MessageMatches DEF DueExists
    <3> HIDE DEF m
    <3>3. UNCHANGED log \/ Append1(m)
      BY <2>4 DEF PromoteEnqueue, EnqueueOk, EnqueueError, m
    <3> QED
      BY <2>1, <3>1, <3>2, <3>3, MatchKept, MatchAppended
  <2>5. ASSUME UNCHANGED log
        PROVE  MessagesMatchRows'
    BY <2>1, <2>5, MatchKept
  <2>6. UNCHANGED log \/ \E i \in due : PromoteEnqueue(i)
    BY <1>3 DEF PromoterNext, PromoterStep, List, PromoteUpdate, PromoterRestart,
                storeVars
  <2> QED
    BY <1>0, <2>2, <2>3, <2>4, <2>5, <2>6
<1>4. CASE UNCHANGED <<jobs, log, req, due>>
  <2>1. RowsKept
    BY <1>0, <1>4, UnchangedKeepsRows
  <2> QED
    BY <1>0, <1>4, <2>1, MatchKept DEF RowsOfRequests, DueExists, Exists
<1> QED
  BY <1>1, <1>2, <1>3, <1>4
  DEF Next, Tick, vars, storeVars, apiVars, promoVars

\* Every message on the topic agrees with the row of its job, in every behaviour:
\* a consumer that looks a job up finds it.
THEOREM MessagesAlwaysMatchRows == Spec => []MessagesMatchRows
<1>1. RowInv => MessagesMatchRows
  BY DEF RowInv
<1> QED
  BY <1>1, RowInvInit, RowInvNext, PTL DEF Spec

-----------------------------------------------------------------------------
(* Retries *)

\* A goroutine is about to enqueue the next attempt only within the budget.
RetryBudget ==
  \A t \in Tasks : task[t] = "retry" => Msg(t).attempt + 1 <= Msg(t).maxRetry

ChainInv == Typed /\ RetryChain /\ RetryBudget

LEMMA ChainAppended ==
  ASSUME Typed, RetryChain, NEW m \in Messages, Append1(m),
         m.attempt > 0 =>
           /\ m.attempt <= m.maxRetry
           /\ \E p \in 1 .. Len(log) : log[p] = [m EXCEPT !.attempt = @ - 1]
  PROVE  RetryChain'
<1>1. Len(log) \in Nat
  BY LogLength DEF Typed, TypeOK
<1>2. /\ Len(log') = Len(log) + 1
      /\ \A o \in 1 .. Len(log) : log'[o] = log[o]
      /\ log'[Len(log) + 1] = m
  BY AppendLog DEF Typed, TypeOK
<1>3. ASSUME NEW o \in 1 .. Len(log'), log'[o].attempt > 0
      PROVE  /\ log'[o].attempt <= log'[o].maxRetry
             /\ \E p \in 1 .. o - 1 : log'[p] = [log'[o] EXCEPT !.attempt = @ - 1]
  <2>1. CASE o \in 1 .. Len(log)
    <3>1. log'[o] = log[o]
      BY <1>2, <2>1
    <3>2. PICK p \in 1 .. o - 1 : log[p] = [log[o] EXCEPT !.attempt = @ - 1]
      BY <1>3, <2>1, <3>1 DEF RetryChain
    <3>3. p \in 1 .. Len(log)
      BY <1>1, <2>1
    <3>4. log'[p] = [log'[o] EXCEPT !.attempt = @ - 1]
      BY <1>2, <3>1, <3>2, <3>3
    <3> QED
      BY <1>3, <2>1, <3>1, <3>4 DEF RetryChain
  <2>2. CASE o = Len(log) + 1
    <3>1. log'[o] = m
      BY <1>2, <2>2
    <3>2. PICK p \in 1 .. Len(log) : log[p] = [m EXCEPT !.attempt = @ - 1]
      BY <1>3, <3>1
    <3>3. p \in 1 .. o - 1 /\ log'[p] = log[p]
      BY <1>1, <1>2, <2>2
    <3> QED
      BY <1>3, <3>1, <3>2, <3>3
  <2> QED
    BY <1>1, <1>2, <2>1, <2>2
<1> QED
  BY <1>3 DEF RetryChain

\* The attempt of every new message of the API and of the promoter is 0.
LEMMA FreshAppended ==
  ASSUME Typed, RetryChain, NEW j \in Jobs, NEW w \in Works, NEW n \in Int,
         UNCHANGED log \/ Append1(Message(j, w, 0, n))
  PROVE  RetryChain'
<1>1. Message(j, w, 0, n) \in Messages /\ ~(Message(j, w, 0, n).attempt > 0)
  BY MessageType DEF Message
<1>2. CASE UNCHANGED log
  BY <1>2 DEF RetryChain
<1> QED
  BY <1>1, <1>2, ChainAppended

LEMMA NextAttempt ==
  ASSUME NEW x \in Messages
  PROVE  [[x EXCEPT !.attempt = @ + 1] EXCEPT !.attempt = @ - 1] = x
<1>1. x.attempt + 1 - 1 = x.attempt
  BY DEF Messages
<1>2. [x EXCEPT !.attempt = @ + 1].attempt - 1 = x.attempt
  BY <1>1 DEF Messages
<1>3. [[x EXCEPT !.attempt = @ + 1] EXCEPT !.attempt = x.attempt] = x
  BY DEF Messages
<1> QED
  BY <1>2, <1>3

LEMMA RetryAppended ==
  ASSUME ChainInv, NEW t \in Tasks, Retry(t)
  PROVE  RetryChain'
<1> DEFINE m == [Msg(t) EXCEPT !.attempt = @ + 1]
<1>1. task[t] # "none" /\ Msg(t) \in Messages /\ t[2] \in 1 .. Len(log)
  BY MsgType DEF ChainInv, Typed, TaskOffsets, Retry
<1>2. m \in Messages /\ m.attempt <= m.maxRetry
  BY <1>1 DEF Messages, ChainInv, RetryBudget, Retry
<1>3. [m EXCEPT !.attempt = @ - 1] = Msg(t)
  BY <1>1, NextAttempt
<1>4. \E p \in 1 .. Len(log) : log[p] = [m EXCEPT !.attempt = @ - 1]
  BY <1>1, <1>3 DEF Msg
<1> HIDE DEF m
<1>5. CASE UNCHANGED log
  BY <1>5 DEF ChainInv, RetryChain
<1>6. CASE Append1(m)
  BY <1>2, <1>4, <1>6, ChainAppended DEF ChainInv
<1> QED
  BY <1>5, <1>6 DEF Retry, EnqueueOk, EnqueueError, m

\* The requests and the promoter write fresh messages only.
LEMMA APIChain ==
  ASSUME Typed, RetryChain, APINext
  PROVE  RetryChain'
<1>1. ASSUME NEW j \in Jobs, Dispatch(j)
      PROVE  RetryChain'
  <2>1. req[j].work \in Works /\ req[j].maxRetry \in Int
    BY DEF Typed, TypeOK, APITypeOK, Requests
  <2>2. UNCHANGED log \/ Append1(Message(j, req[j].work, 0, req[j].maxRetry))
    BY <1>1 DEF Dispatch, EnqueueOk, EnqueueError
  <2> QED
    BY <2>1, <2>2, FreshAppended
<1>2. UNCHANGED log \/ \E j \in Jobs : Dispatch(j)
  BY DEF APINext, Submit, Lookup, CreateRow, RetryArchivedJob, CancelCheck,
         CancelWrite, PauseQueue, UnpauseQueue, SetQueuePaused, storeVars
<1>3. UNCHANGED log => RetryChain'
  BY DEF RetryChain
<1> QED
  BY <1>1, <1>2, <1>3

LEMMA PromoterChain ==
  ASSUME Typed, RetryChain, PromoterNext
  PROVE  RetryChain'
<1>1. ASSUME NEW i \in due, PromoteEnqueue(i)
      PROVE  RetryChain'
  <2>1. i.job \in Jobs /\ jobs[i.job].work \in Works /\ PromoteMaxRetry \in Int
    BY DEF Typed, TypeOK, StoreTypeOK, PromoterTypeOK, DueItems, Rows,
           PromoteMaxRetry
  <2>2. \/ UNCHANGED log
        \/ Append1(Message(i.job, jobs[i.job].work, 0, PromoteMaxRetry))
    BY <1>1 DEF PromoteEnqueue, EnqueueOk, EnqueueError
  <2> QED
    BY <2>1, <2>2, FreshAppended
<1>2. UNCHANGED log \/ \E i \in due : PromoteEnqueue(i)
  BY DEF PromoterNext, PromoterStep, List, PromoteUpdate, PromoterRestart,
         storeVars
<1>3. UNCHANGED log => RetryChain'
  BY DEF RetryChain
<1> QED
  BY <1>1, <1>2, <1>3

\* A message does not change once it is on the topic.
LEMMA MsgKept ==
  ASSUME Typed, NEW t \in Tasks, task[t] # "none",
         NEW m \in Messages, UNCHANGED log \/ Append1(m)
  PROVE  Msg(t)' = Msg(t)
BY AppendLog DEF Typed, TypeOK, TaskOffsets, Msg

LEMMA LogStep ==
  ASSUME Typed, [Next]_vars
  PROVE  UNCHANGED log \/ \E m \in Messages : Append1(m)
<1>0. StoreTypeOK /\ APITypeOK /\ PromoterTypeOK
  BY DEF Typed, TypeOK
<1>1. ASSUME NEW j \in Jobs, Dispatch(j)
      PROVE  UNCHANGED log \/ \E m \in Messages : Append1(m)
  <2>1. Message(j, req[j].work, 0, req[j].maxRetry) \in Messages
    BY <1>0, MessageType DEF APITypeOK, Requests
  <2> QED
    BY <1>1, <2>1 DEF Dispatch, EnqueueOk, EnqueueError
<1>2. ASSUME NEW t \in Tasks, Retry(t)
      PROVE  UNCHANGED log \/ \E m \in Messages : Append1(m)
  <2>1. [Msg(t) EXCEPT !.attempt = @ + 1] \in Messages
    BY <1>2, MsgType DEF Retry, Messages
  <2> QED
    BY <1>2, <2>1 DEF Retry, EnqueueOk, EnqueueError
<1>3. ASSUME NEW i \in due, PromoteEnqueue(i)
      PROVE  UNCHANGED log \/ \E m \in Messages : Append1(m)
  <2>1. Message(i.job, jobs[i.job].work, 0, PromoteMaxRetry) \in Messages
    BY <1>0, MessageType
    DEF PromoterTypeOK, DueItems, StoreTypeOK, Rows, PromoteMaxRetry
  <2> QED
    BY <1>3, <2>1 DEF PromoteEnqueue, EnqueueOk, EnqueueError
<1>4. APINext => UNCHANGED log \/ \E j \in Jobs : Dispatch(j)
  BY DEF APINext, Submit, Lookup, CreateRow, RetryArchivedJob, CancelCheck,
         CancelWrite, PauseQueue, UnpauseQueue, SetQueuePaused, storeVars
<1>5. PromoterNext => UNCHANGED log \/ \E i \in due : PromoteEnqueue(i)
  BY DEF PromoterNext, PromoterStep, List, PromoteUpdate, PromoterRestart,
         storeVars
<1>6. Tick \/ UNCHANGED vars => UNCHANGED log
  BY DEF Tick, vars, storeVars
<1> QED
  BY <1>1, <1>2, <1>3, <1>4, <1>5, <1>6, WorkerLog DEF Next

LEMMA ChainInvNext == ChainInv /\ [Next]_vars => ChainInv'
<1> SUFFICES ASSUME ChainInv, [Next]_vars PROVE ChainInv'
  OBVIOUS
<1> USE DEF ChainInv
<1>1. Typed'
  BY NextTyped
<1>2. RetryChain'
  <2>1. UNCHANGED log => RetryChain'
    BY DEF RetryChain
  <2>2. WorkerNext => RetryChain'
    BY <2>1, WorkerLog, RetryAppended
  <2>3. Tick \/ UNCHANGED vars => UNCHANGED log
    BY DEF Tick, vars, storeVars
  <2> QED
    BY <2>1, <2>2, <2>3, APIChain, PromoterChain DEF Next
<1>3. RetryBudget'
  <2>1. ASSUME NEW t \in Tasks, task'[t] = "retry"
        PROVE  task[t] = "retry" \/ Fail(t)
    <3>1. CASE UNCHANGED task
      BY <2>1, <3>1
    <3>2. CASE \E w \in Workers : Crash(w)
      BY <2>1, <3>2 DEF Crash
    <3>3. CASE Fetch
      BY <2>1, <3>3 DEF Fetch, Typed, TypeOK, WorkerTypeOK
    <3>4. ASSUME NEW u \in Tasks, TaskStep(u)
          PROVE  task[t] = "retry" \/ Fail(t)
      <4>1. CASE u = t
        BY <2>1, <3>4, <4>1
        DEF TaskStep, Admit, Load, Start, CompleteEmail, RejectUnknown, Complete,
            Retry, Archive, Commit, Go, Typed, TypeOK, WorkerTypeOK
      <4>2. CASE u # t
        BY <2>1, <3>4, <4>2
        DEF TaskStep, Admit, Load, Start, CompleteEmail, RejectUnknown, Complete,
            Fail, Retry, Archive, Commit, Go, Typed, TypeOK, WorkerTypeOK
      <4> QED
        BY <4>1, <4>2
    <3>5. UNCHANGED task \/ WorkerNext
      BY DEF Next, vars, workerVars
    <3> QED
      BY <3>1, <3>2, <3>3, <3>4, <3>5 DEF WorkerNext, Join
  <2>2. ASSUME NEW t \in Tasks, task'[t] = "retry"
        PROVE  (Msg(t).attempt + 1 <= Msg(t).maxRetry)'
    <3>1. task[t] # "none" /\ Msg(t).attempt + 1 <= Msg(t).maxRetry
      <4>1. CASE task[t] = "retry"
        BY <4>1 DEF RetryBudget
      <4>2. CASE Fail(t)
        BY <2>2, <4>2 DEF Fail, Go, Typed, TypeOK, WorkerTypeOK
      <4> QED
        BY <2>1, <2>2, <4>1, <4>2
    <3>2. Msg(t)' = Msg(t)
      <4>1. CASE UNCHANGED log
        BY <4>1 DEF Msg
      <4> QED
        BY <3>1, <4>1, LogStep, MsgKept
    <3> QED
      BY <3>1, <3>2
  <2> QED
    BY <2>2 DEF RetryBudget
<1> QED
  BY <1>1, <1>2, <1>3

\* Attempts are handed on one at a time and never beyond the budget, in every
\* behaviour, whatever is redelivered, lost or duplicated.
THEOREM RetriesFormChains == Spec => []RetryChain
<1>1. Init => ChainInv
  <2>1. Init => Typed
    BY InitTyped DEF Typed, TaskOffsets, Init, WorkerInit
  <2>2. Init => RetryChain /\ RetryBudget
    BY DEF Init, StoreInit, WorkerInit, RetryChain, RetryBudget
  <2> QED
    BY <2>1, <2>2 DEF ChainInv
<1>2. ChainInv => RetryChain
  BY DEF ChainInv
<1> QED
  BY <1>1, <1>2, ChainInvNext, PTL DEF Spec

-----------------------------------------------------------------------------
(* The committed offset *)

\* Some generation fetched the message at offset o.
Fetched(o) == \E g \in Gens : task[<<g, o>>] # "none"

\* What the group fetches, and what it commits, has no gaps.
NoGaps ==
  /\ live => gen \in Gens
  /\ Len(log) <= MaxLog
  /\ \A o \in 1 .. fetched : Fetched(o)
  /\ \A o \in 1 .. committed : Fetched(o)
  /\ \A t \in Tasks : task[t] # "none" => \A o \in 1 .. t[2] : Fetched(o)

LEMMA FetchedMeans ==
  ASSUME Typed, NEW o \in Offsets, Fetched(o)
  PROVE  Processed(o) \/ InProgress(o) \/ \E g \in Gens : task[<<g, o>>] = "killed"
<1>1. PICK g \in Gens : task[<<g, o>>] # "none"
  BY DEF Fetched
<1>2. task[<<g, o>>] \in TaskStates
  BY DEF Typed, TypeOK, WorkerTypeOK, Tasks
<1> QED
  BY <1>1, <1>2 DEF TaskStates, Processed, InProgress

\* What was fetched once stays fetched.
LEMMA TaskStays ==
  ASSUME Typed, [Next]_vars, NEW t \in Tasks, task[t] # "none"
  PROVE  task'[t] # "none"
<1>1. CASE UNCHANGED task
  BY <1>1
<1>2. CASE \E w \in Workers : Crash(w)
  BY <1>2 DEF Crash
<1>3. CASE Fetch
  BY <1>3 DEF Fetch, Typed, TypeOK, WorkerTypeOK
<1>4. CASE \E u \in Tasks : TaskStep(u)
  BY <1>4
  DEF TaskStep, Admit, Load, Start, CompleteEmail, RejectUnknown, Complete,
      Fail, Retry, Archive, Commit, Go, Typed, TypeOK, WorkerTypeOK
<1>5. UNCHANGED task \/ WorkerNext
  BY DEF Next, vars, workerVars
<1> QED
  BY <1>1, <1>2, <1>3, <1>4, <1>5 DEF WorkerNext, Join

LEMMA FetchedKept ==
  ASSUME Typed, [Next]_vars
  PROVE  \A o \in Offsets : Fetched(o) => Fetched(o)'
BY TaskStays DEF Fetched, Tasks

LEMMA NoGapsNext ==
  ASSUME Typed, NoGaps, [Next]_vars
  PROVE  NoGaps'
<1>0. /\ Len(log) \in Nat /\ gen \in 0 .. MaxGenerations /\ MaxGenerations \in Nat
      /\ MaxLog \in Nat /\ live \in BOOLEAN
      /\ fetched \in 0 .. Len(log) /\ committed \in 0 .. Len(log)
  BY LogLength, StoreAssumption, WorkerAssumption
  DEF StoreAssumption, WorkerAssumption, Typed, TypeOK, WorkerTypeOK
<1>1. Len(log') <= MaxLog
  <2>1. ASSUME NEW m \in Messages, Append1(m)
        PROVE  Len(log') <= MaxLog
    BY <1>0, <2>1, AppendLog DEF Append1, Typed, TypeOK
  <2> QED
    BY <2>1, LogStep DEF NoGaps
<1>2. live' => gen' \in Gens
  <2>1. CASE UNCHANGED <<live, gen>>
    BY <2>1 DEF NoGaps
  <2>2. CASE \E w \in Workers : Join(w)
    BY <1>0, <2>2 DEF Join, Gens
  <2>3. CASE \E w \in Workers : Crash(w)
    BY <2>3 DEF Crash, NoGaps
  <2>4. CASE Fetch \/ \E t \in Tasks : TaskStep(t)
    BY <2>1, <2>4
    DEF Fetch, TaskStep, Admit, Load, Start, CompleteEmail, RejectUnknown,
        Complete, Fail, Retry, Archive, Commit, groupVars
  <2> QED
    BY <2>1, <2>2, <2>3, <2>4 DEF Next, vars, workerVars, WorkerNext
<1>3. ASSUME NEW o \in 1 .. Len(log), Fetched(o)
      PROVE  Fetched(o)'
  BY <1>0, <1>3, FetchedKept DEF NoGaps, Offsets
<1>4. ASSUME Fetch, NEW o, o = fetched + 1
      PROVE  o \in 1 .. Len(log) /\ Fetched(o)'
  <2>1. o \in 1 .. Len(log) /\ <<gen, o>> \in Tasks
    BY <1>0, <1>4 DEF Fetch, NoGaps, Tasks, Offsets
  <2>2. task'[<<gen, o>>] = "admit" /\ gen \in Gens
    BY <1>4, <2>1 DEF Fetch, Typed, TypeOK, WorkerTypeOK, Tasks
  <2> QED
    BY <2>1, <2>2 DEF Fetched
<1>5. \/ fetched' = fetched
      \/ fetched' = committed
      \/ Fetch /\ fetched' = fetched + 1
  BY DEF Next, vars, workerVars, WorkerNext, Join, Crash, Fetch, TaskStep, Admit,
         Load, Start, CompleteEmail, RejectUnknown, Complete, Fail, Retry,
         Archive, Commit, groupVars
<1>6. \/ committed' = committed
      \/ \E t \in Tasks : task[t] # "none" /\ committed' = t[2]
  BY DEF Next, vars, workerVars, WorkerNext, Join, Crash, Fetch, TaskStep, Admit,
         Load, Start, CompleteEmail, RejectUnknown, Complete, Fail, Retry,
         Archive, Commit, groupVars
<1>7. ASSUME NEW t \in Tasks, task'[t] # "none"
      PROVE  task[t] # "none" \/ (Fetch /\ t[2] = fetched + 1)
  <2>1. CASE UNCHANGED task
    BY <1>7, <2>1
  <2>2. CASE \E w \in Workers : Crash(w)
    BY <1>7, <2>2 DEF Crash, Running
  <2>3. CASE Fetch
    BY <1>7, <2>3 DEF Fetch, Typed, TypeOK, WorkerTypeOK
  <2>4. CASE \E u \in Tasks : TaskStep(u)
    BY <1>7, <2>4
    DEF TaskStep, Admit, Load, Start, CompleteEmail, RejectUnknown, Complete,
        Fail, Retry, Archive, Commit, Go, Typed, TypeOK, WorkerTypeOK
  <2>5. UNCHANGED task \/ WorkerNext
    BY DEF Next, vars, workerVars
  <2> QED
    BY <2>1, <2>2, <2>3, <2>4, <2>5 DEF WorkerNext, Join
<1>8. \A o \in 1 .. fetched' : Fetched(o)'
  <2>1. CASE fetched' = fetched \/ fetched' = committed
    BY <1>0, <1>3, <2>1 DEF NoGaps
  <2>2. CASE Fetch /\ fetched' = fetched + 1
    BY <1>0, <1>3, <1>4, <2>2 DEF NoGaps
  <2> QED
    BY <1>5, <2>1, <2>2
<1>9. \A o \in 1 .. committed' : Fetched(o)'
  <2>1. CASE committed' = committed
    BY <1>0, <1>3, <2>1 DEF NoGaps
  <2>2. ASSUME NEW t \in Tasks, task[t] # "none", committed' = t[2]
        PROVE  \A o \in 1 .. committed' : Fetched(o)'
    <3>1. t[2] \in 1 .. Len(log)
      BY <2>2 DEF Typed, TaskOffsets
    <3> QED
      BY <1>0, <1>3, <2>2, <3>1 DEF NoGaps
  <2> QED
    BY <1>6, <2>1, <2>2
<1>10. ASSUME NEW t \in Tasks, task'[t] # "none"
       PROVE  \A o \in 1 .. t[2] : Fetched(o)'
  <2>1. CASE task[t] # "none"
    <3>1. t[2] \in 1 .. Len(log)
      BY <2>1 DEF Typed, TaskOffsets
    <3> QED
      BY <1>0, <1>3, <2>1, <3>1 DEF NoGaps
  <2>2. CASE Fetch /\ t[2] = fetched + 1
    BY <1>0, <1>3, <1>4, <2>2 DEF NoGaps
  <2> QED
    BY <1>7, <1>10, <2>1, <2>2
<1> QED
  BY <1>1, <1>2, <1>8, <1>9, <1>10 DEF NoGaps

LEMMA NoGapsInit == Init => NoGaps
<1> SUFFICES ASSUME Init PROVE NoGaps
  OBVIOUS
<1>1. Len(log) = 0 /\ ~live /\ fetched = 0 /\ committed = 0 /\ MaxLog \in Nat
  BY StoreAssumption DEF StoreAssumption, Init, StoreInit, WorkerInit
<1>2. \A t \in Tasks : task[t] = "none"
  BY DEF Init, WorkerInit
<1> QED
  BY <1>1, <1>2 DEF NoGaps

LEMMA NoGapsMeans == Typed /\ NoGaps => OnlyCrashesLose
<1> SUFFICES ASSUME Typed, NoGaps PROVE OnlyCrashesLose
  OBVIOUS
<1>1. ASSUME NEW o \in 1 .. committed
      PROVE  o \in Offsets /\ Fetched(o)
  <2>1. Len(log) \in Nat /\ MaxLog \in Nat /\ committed \in 0 .. Len(log)
    BY LogLength, StoreAssumption DEF StoreAssumption, Typed, TypeOK, WorkerTypeOK
  <2> QED
    BY <1>1, <2>1 DEF NoGaps, Offsets
<1> QED
  BY <1>1, FetchedMeans DEF OnlyCrashesLose

\* A message below the committed offset was fetched by some generation: it has
\* been processed, is being processed, or was in the hands of a process that was
\* killed.  Rebalances, failed commits and commits that go backwards lose nothing.
THEOREM NothingElseLosesMessages == Spec => []OnlyCrashesLose
<1>1. Init => Typed
  BY InitTyped DEF Typed, TaskOffsets, Init, WorkerInit
<1>2. Typed /\ NoGaps /\ [Next]_vars => (Typed /\ NoGaps)'
  BY NextTyped, NoGapsNext
<1> QED
  BY <1>1, <1>2, NoGapsInit, NoGapsMeans, PTL DEF Spec
=============================================================================
